---- MODULE Spec2Model ----
(***************************************************************************)
(* A model of libs/hwui/DisplayList.cpp (RenderNode): the ordering pass    *)
(* (computeOrdering / computeOrderingImpl), the Z sort                     *)
(* (buildZSortedChildList), the 3d and projected sub-passes and the        *)
(* dispatch template RenderNode::iterate, driven by the defer and the      *)
(* replay handler.                                                         *)
(*                                                                         *)
(* Conventions.                                                            *)
(*  - Render nodes are the numbers of Nodes; node 1 is the root of the     *)
(*    frame.  A DrawDisplayListOp (a "child entry") is named by the node   *)
(*    it draws: entry e has mDisplayList = e.                              *)
(*  - A matrix is the sequence of the symbolic factors multiplied into it, *)
(*    the identity being the empty sequence: two matrices are equal iff    *)
(*    they were built from the same factors in the same order.             *)
(*  - Z translations are integers in hundredths of a Z unit, alpha values  *)
(*    are integers in percent.                                             *)
(*  - The dispatch recursion is an explicit call stack of frames; every    *)
(*    step action executes the lines of the source named in its comment.   *)
(***************************************************************************)
EXTENDS Integers, Sequences, FiniteSets, TLC

\* ---------------------------------------------------------------- bounds
\* Z translations range over multiples of 0.05 in -MaxZ*0.05 .. MaxZ*0.05
MaxZ == 3
\* plain (non child) operations recorded in the op list of an inner node
MaxPlainOps == 2
\* ordering passes run in a row
MaxOrderRuns == 2

\* ------------------------------------------------------ program constants
\* #define SHADOW_DELTA 0.1f, in hundredths
SHADOW_DELTA == 10
\* #define PROPERTY_SAVECOUNT 0
PROPERTY_SAVECOUNT == 0

Nodes == {1, 2, 3, 4}
Root == CHOOSE n \in Nodes : \A m \in Nodes : n <= m
Entries == Nodes \ {Root}
ZValues == {5 * z : z \in (0 - MaxZ)..MaxZ}
\* a pointer is the empty sequence (NULL) or the one-element sequence of its target
NULL == <<>>
Deref(ptr) == ptr[1]
Ptr(x) == <<x>>
HandlerKinds == {"defer", "replay"}

VARIABLES
    mDisplayListData,   \* node -> NULL or [displayListOps, projectionReceiveIndex]
    properties,         \* node -> its RenderProperties
    mDestroyed,         \* node -> BOOLEAN
    mProjectedNodes,    \* node -> sequence of entries
    mSkipInOrderDraw,   \* entry -> BOOLEAN
    mTransformFromParent,               \* entry -> matrix (transform snapshot)
    mTransformFromCompositingAncestor,  \* entry -> matrix
    renderer,           \* [saveCount, overrideLayerAlpha] of the OpenGLRenderer, and
                        \* alphaSetup, the alpha calls setViewProperties made on it
    quickRejectAnswer,  \* node -> what quickRejectConservative answers for its bounds
    pendingDestroy,     \* the nodes the owner is still going to delete, in order
    pendingFrames,      \* the handler kinds of the dispatches still to come, in order
    pendingMutations,   \* the setData and property calls the owner is still to make
    dataId,             \* node -> the DisplayListData object it points to (0: none)
    deleted,            \* DisplayListData object -> number of times it was deleted
    passed,             \* node -> the objects it was given (built with, then by setData)
    stack,              \* call stack of the running dispatch, top first
    handlerKind,        \* handler of the running (or last) dispatch
    trace,              \* handler invocations of the running (or last) dispatch
    finished,           \* handler kind -> trace of its completed dispatch, or NULL
    aborted,            \* the process has been aborted
    calls,              \* the nodes iterate() was entered on in this dispatch, in order
    orderRuns,          \* consecutive ordering passes since the last other operation
    prevOrder,          \* result of the previous ordering pass of such a sequence
    flaggedByPass       \* the entries an ordering pass has flagged as projected so far

heapVars == <<dataId, deleted, passed>>
treeVars == <<mDisplayListData, properties, mDestroyed, mTransformFromParent,
              quickRejectAnswer, pendingFrames, pendingMutations, heapVars>>
orderVars == <<mProjectedNodes, mTransformFromCompositingAncestor>>
runVars == <<stack, handlerKind, trace, finished, calls>>
ghostVars == <<orderRuns, prevOrder, flaggedByPass>>
vars == <<mDisplayListData, properties, mDestroyed, mProjectedNodes, mSkipInOrderDraw,
          mTransformFromParent, mTransformFromCompositingAncestor, renderer,
          quickRejectAnswer, pendingDestroy, pendingFrames, pendingMutations, dataId,
          deleted, passed, stack, handlerKind, trace, finished,
          aborted, calls, orderRuns, prevOrder, flaggedByPass>>

\* ------------------------------------------------------------ helpers
RECURSIVE SortedSeq(_)
SortedSeq(S) ==
    IF S = {} THEN <<>>
    ELSE LET m == CHOOSE x \in S : \A y \in S : x <= y
         IN  <<m>> \o SortedSeq(S \ {m})

SelectIdx(s, Test(_)) == {i \in 1..Len(s) : Test(s[i])}

\* ------------------------------------------------------------ matrices
Identity == <<>>
Multiply(a, b) == a \o b

\* ------------------------------------------------------- recorded op list
DrawOp(k) == <<"draw", k>>
ChildOp(e) == <<"child", e>>
IsChildOp(op) == op[1] = "child"
EntryOf(op) == op[2]
\* DrawDisplayListOp::mDisplayList
NodeOf(e) == e

\* DisplayListData::children: the child entries of the op list, in recorded order
Children(data) ==
    IF data = NULL THEN <<>>
    ELSE SelectSeq(Deref(data).displayListOps, IsChildOp)

\* DisplayListData::isEmpty()
isEmpty(data) == Len(Deref(data).displayListOps) = 0

\* ------------------------------------------------- property transforms
\* RenderNode::applyViewPropertyTransforms(matrix, true3dTransform)
applyViewPropertyTransforms(n, matrix, true3dTransform) ==
    LET p == properties[n]
        m1 == IF p.mLeftTop THEN Multiply(matrix, <<<<"translateLeftTop", n>>>>) ELSE matrix
        m2 == IF p.mStaticMatrix THEN Multiply(m1, <<<<"staticMatrix", n>>>>)
              ELSE IF p.mAnimationMatrix THEN Multiply(m1, <<<<"animationMatrix", n>>>>)
              ELSE m1
    IN  IF p.mMatrixFlags = "none" THEN m2
        ELSE IF p.mMatrixFlags = "TRANSLATION"
             THEN Multiply(m2, <<<<"translate", n, IF true3dTransform THEN "xyz" ELSE "xy">>>>)
             ELSE IF ~true3dTransform
                  THEN Multiply(m2, <<<<"transformMatrix", n>>>>)
                  ELSE Multiply(m2, <<<<"true3dMat", n>>>>)

\* ---------------------------------------------------------- ordering pass
\* The ordering state threaded through the recursion: the projected lists, the
\* two per-entry fields the pass writes, the nodes whose fields it has read and,
\* per node, the entries the pass has added to its projected list.
OrderState == [proj |-> mProjectedNodes, skip |-> mSkipInOrderDraw,
               tfca |-> mTransformFromCompositingAncestor, visited |-> {},
               appended |-> [n \in Nodes |-> <<>>]]

\* the root keeps what it collected in earlier passes
ClearRootProjectedMissing(st, n) == [st EXCEPT !.visited = @ \cup {n}]

\* mProjectedNodes.clear() at the head of computeOrdering (line 255)
ClearRootProjected(st, n) == [st EXCEPT !.proj[n] = <<>>, !.visited = @ \cup {n}]

\* a node below the root keeps what it collected in earlier passes
ClearProjectedMissing(st, n) == [st EXCEPT !.visited = @ \cup {n}]

\* mProjectedNodes.clear() at the head of computeOrderingImpl (line 271)
ClearProjected(st, n) == [st EXCEPT !.proj[n] = <<>>, !.visited = @ \cup {n}]

\* the running transform is stored in the entry of every node, projecting or not
ClassifyStoresAll(st, n, opState, collector, local) ==
    IF properties[n].mProjectBackwards
    THEN [st EXCEPT !.skip[opState] = TRUE,
                    !.tfca[opState] = local,
                    !.proj[collector] = Append(@, opState),
                    !.appended[collector] = Append(@, opState)]
    ELSE [st EXCEPT !.skip[opState] = FALSE,
                    !.tfca[opState] = local]

\* lines 279-287: a projecting node is flagged, given its transform and collected
Classify(st, n, opState, collector, local) ==
    IF properties[n].mProjectBackwards
    THEN [st EXCEPT !.skip[opState] = TRUE,
                    !.tfca[opState] = local,
                    !.proj[collector] = Append(@, opState),
                    !.appended[collector] = Append(@, opState)]
    ELSE [st EXCEPT !.skip[opState] = FALSE]

\* a receiver collects below every child, projecting or not
CollectsHereAlways(n, child) ==
    Deref(mDisplayListData[n]).projectionReceiveIndex >= 0

\* line 298: the child is collected by this node's own projected list
CollectsHere(n, child) ==
    /\ Deref(mDisplayListData[n]).projectionReceiveIndex >= 0
    /\ ~properties[child].mProjectBackwards

\* the node's property transforms are never applied to the running transform
ProjectionTransformUnapplied(n, local, applied) == local

\* lines 307-310: the node's property transforms are applied once, when first needed
ProjectionTransform(n, local, applied) ==
    IF applied THEN local ELSE applyViewPropertyTransforms(n, local, FALSE)

RECURSIVE computeOrderingImpl(_, _, _, _, _)
RECURSIVE OrderChildren(_, _, _, _, _, _)

\* the loop of lines 292-315 from child index i on
OrderChildren(st, n, i, collector, local, applied) ==
    LET children == Children(mDisplayListData[n]) IN
    IF i > Len(children) THEN st
    ELSE LET childOp == EntryOf(children[i])
             child == NodeOf(childOp)
             here == CollectsHere(n, child)
             local2 == IF here THEN local ELSE ProjectionTransform(n, local, applied)
             st2 == IF here
                    THEN computeOrderingImpl(st, child, childOp, n, Identity)
                    ELSE computeOrderingImpl(st, child, childOp, collector, local2)
         IN  OrderChildren(st2, n, i + 1, collector, local2, applied \/ ~here)

\* RenderNode::computeOrderingImpl(opState, compositedChildrenOfProjectionSurface,
\* transformFromProjectionSurface) on node n; collector is the node that owns the
\* list compositedChildrenOfProjectionSurface points to
computeOrderingImpl(st, n, opState, collector, transformFromProjectionSurface) ==
    LET s1 == ClearProjected(st, n) IN
    IF mDisplayListData[n] = NULL \/ isEmpty(mDisplayListData[n]) THEN s1
    ELSE LET local == Multiply(transformFromProjectionSurface, mTransformFromParent[opState])
             s2 == Classify(s1, n, opState, collector, local)
         IN  OrderChildren(s2, n, 1, collector, local, FALSE)

RECURSIVE OrderRootChildren(_, _, _)
\* the loop of lines 260-264
OrderRootChildren(st, n, i) ==
    LET children == Children(mDisplayListData[n]) IN
    IF i > Len(children) THEN st
    ELSE LET childOp == EntryOf(children[i])
         IN  OrderRootChildren(computeOrderingImpl(st, NodeOf(childOp), childOp, n, Identity),
                               n, i + 1)

\* RenderNode::computeOrdering() on node n
computeOrdering(n) ==
    LET s1 == ClearRootProjected(OrderState, n) IN
    IF mDisplayListData[n] = NULL THEN s1
    ELSE OrderRootChildren(s1, n, 1)

\* ------------------------------------------------------------- renderer
\* OpenGLRenderer::save(flags): pushes a snapshot; the count before is returned
RendererSave(r) == [r EXCEPT !.saveCount = @ + 1]

\* OpenGLRenderer::restoreToCount(saveCount)
RendererRestoreToCount(r, count) ==
    LET c == IF count < 1 THEN 1 ELSE count
    IN  [r EXCEPT !.saveCount = IF @ > c THEN c ELSE @]

\* ------------------------------------------------------------ operations
SaveOp == <<"Save">>
SaveLayerOp(n, alpha, saveFlags) == <<"SaveLayer", n, alpha, saveFlags>>
ClipRectOp(n, regionOp) == <<"ClipRect", n, regionOp>>
ClipPathOp(n) == <<"ClipPath", n>>
RestoreToCountOp(count) == <<"RestoreToCount", count>>
DrawShadowOp(e, matrixXY, matrixZ, alpha) == <<"DrawShadow", e, matrixXY, matrixZ, alpha>>

\* One invocation handler(operation, saveCount, clipToBounds), issued by frame f on
\* behalf of node f.node with clipToBounds = properties().mClipToBounds.  call, node,
\* mode, site and idx record which iterate() call issued it, in which mode of the 3d
\* pass, from which place of the source and at which index of the list walked there.
Invocation(op, saveCount, f, site, idx) ==
    [op |-> op, saveCount |-> saveCount,
     clipToBounds |-> properties[f.node].mClipToBounds,
     call |-> f.call, node |-> f.node, mode |-> f.mode, site |-> site, idx |-> idx]

\* the replay handler passes the operation a save count that is off by one
HandlerArgsShifted(kind, ev) ==
    <<ev.op, IF kind = "replay" THEN ev.saveCount + 1 ELSE ev.saveCount, ev.clipToBounds>>

\* DeferOperationHandler::operator() (lines 324-326) and
\* ReplayOperationHandler::operator() (lines 343-348): the operation, the save count
\* and the clip flag each hands on to operation->defer / operation->replay
HandlerArgs(kind, ev) == <<ev.op, ev.saveCount, ev.clipToBounds>>

Triples(kind, tr) == [i \in 1..Len(tr) |-> HandlerArgs(kind, tr[i])]

\* The effect on the renderer's save stack of operation->defer / operation->replay
\* for the state operations the traversal synthesizes.
ApplyToRenderer(r, op, saveCount) ==
    IF op[1] \in {"Save", "SaveLayer"} THEN RendererSave(r)
    ELSE IF op[1] = "RestoreToCount" THEN RendererRestoreToCount(r, saveCount + op[2])
    ELSE r

RECURSIVE ApplyAll(_, _)
ApplyAll(r, evs) ==
    IF evs = <<>> THEN r
    ELSE ApplyAll(ApplyToRenderer(r, Head(evs).op, Head(evs).saveCount), Tail(evs))

\* ---------------------------------------------------------------- frames
Frame(fn, n, call, mode) ==
    [fn |-> fn, node |-> n, pc |-> "begin", call |-> call, mode |-> mode,
     i |-> 0, restoreTo |-> 0, saveCountOffset |-> 0, zTranslatedNodes |-> <<>>,
     drawIndex |-> 0, shadowIndex |-> 0, endIndex |-> 0, lastCasterZ |-> 0,
     rootRestoreTo |-> 0]

Top == Head(stack)
Running(fn, pc) == /\ ~aborted
                   /\ stack # <<>>
                   /\ Top.fn = fn
                   /\ Top.pc = pc

\* the dispatch continues with newStack after handing newTrace to the handler;
\* when the outermost iterate() has returned the dispatch is complete
Continue(newStack, newTrace) ==
    /\ stack' = newStack
    /\ trace' = newTrace
    /\ finished' = IF newStack = <<>> THEN [finished EXCEPT ![handlerKind] = Ptr(newTrace)]
                   ELSE finished
    /\ UNCHANGED handlerKind

Replace(frame) == <<frame>> \o Tail(stack)

\* ------------------------------------------------------ property setup
\* the handler invocations of RenderNode::setViewProperties (lines 170-199), in order
setViewProperties(f) ==
    LET n == f.node
        p == properties[n]
        clipToBounds0 == IF p.mCaching THEN FALSE ELSE p.mClipToBounds
        saveLayer == p.mAlpha < 100 /\ ~p.mCaching /\ p.mHasOverlappingRendering
        saveFlags == IF clipToBounds0 THEN "HasAlphaLayer|ClipToLayer" ELSE "HasAlphaLayer"
        clipToBoundsNeeded == clipToBounds0 /\ ~saveLayer
        Ev(op) == Invocation(op, PROPERTY_SAVECOUNT, f, "property", 0)
    IN  (IF saveLayer THEN <<Ev(SaveLayerOp(n, p.mAlpha, saveFlags))>> ELSE <<>>)
        \o (IF clipToBoundsNeeded THEN <<Ev(ClipRectOp(n, "intersect"))>> ELSE <<>>)
        \o (IF p.mClipToOutline /\ ~p.mOutlineEmpty THEN <<Ev(ClipPathOp(n))>> ELSE <<>>)

\* one call setViewProperties makes on the renderer for the alpha of a node
AlphaCall(fn, f) == [fn |-> fn, call |-> f.call, alpha |-> properties[f.node].mAlpha]

\* scaleAlpha is called as well when the node is caching
setViewPropertiesAlphaBoth(f, r) ==
    LET p == properties[f.node] IN
    IF p.mAlpha < 100
    THEN LET r1 == IF p.mCaching
                   THEN [r EXCEPT !.overrideLayerAlpha = p.mAlpha,
                                  !.alphaSetup = Append(@, AlphaCall("setOverrideLayerAlpha", f))]
                   ELSE r
         IN  IF ~p.mHasOverlappingRendering
             THEN [r1 EXCEPT !.alphaSetup = Append(@, AlphaCall("scaleAlpha", f))]
             ELSE r1
    ELSE r

\* lines 171-176: renderer.setOverrideLayerAlpha(mAlpha) of a caching node, else
\* renderer.scaleAlpha(mAlpha) of a node without overlapping rendering
setViewPropertiesAlpha(f, r) ==
    LET p == properties[f.node] IN
    IF p.mAlpha < 100
    THEN IF p.mCaching
         THEN [r EXCEPT !.overrideLayerAlpha = p.mAlpha,
                        !.alphaSetup = Append(@, AlphaCall("setOverrideLayerAlpha", f))]
         ELSE IF ~p.mHasOverlappingRendering
         THEN [r EXCEPT !.alphaSetup = Append(@, AlphaCall("scaleAlpha", f))]
         ELSE r
    ELSE r

\* ------------------------------------------------------------- Z sort
ZPair(key, value) == <<key, value>>
Key(pair) == pair[1]
Value(pair) == pair[2]

RECURSIVE InsertStable(_, _)
\* pair goes behind every element that is not greater than it
InsertStable(sorted, pair) ==
    IF sorted = <<>> THEN <<pair>>
    ELSE IF Key(pair) < Key(Head(sorted)) THEN <<pair>> \o sorted
    ELSE <<Head(sorted)>> \o InsertStable(Tail(sorted), pair)

RECURSIVE InsertUnstable(_, _)
InsertUnstable(sorted, pair) ==
    IF sorted = <<>> THEN <<pair>>
    ELSE IF Key(pair) <= Key(Head(sorted)) THEN <<pair>> \o sorted
    ELSE <<Head(sorted)>> \o InsertUnstable(Tail(sorted), pair)

RECURSIVE UnstableSort(_)
\* a sort that is ascending but does not keep the order of equal keys
UnstableSort(s) ==
    IF s = <<>> THEN <<>>
    ELSE InsertUnstable(UnstableSort(SubSeq(s, 1, Len(s) - 1)), s[Len(s)])

RECURSIVE StableSort(_)
\* std::stable_sort(zTranslatedNodes.begin(), zTranslatedNodes.end()) (line 385)
StableSort(s) ==
    IF s = <<>> THEN <<>>
    ELSE InsertStable(StableSort(SubSeq(s, 1, Len(s) - 1)), s[Len(s)])

\* line 375: the child goes to the Z list
IsZTranslated(child) == properties[child].mTranslationZ # 0

RECURSIVE CollectZ(_, _)
\* the loop of lines 370-382 over the child entries: the pairs added, in child order
CollectZ(children, i) ==
    IF i > Len(children) THEN <<>>
    ELSE LET childOp == EntryOf(children[i])
             child == NodeOf(childOp)
         IN  (IF IsZTranslated(child)
              THEN <<ZPair(properties[child].mTranslationZ, childOp)>>
              ELSE <<>>) \o CollectZ(children, i + 1)

\* the flag of every child that is not raised is cleared
SkipAfterZSortCleared(childOp, skip) ==
    IF IsZTranslated(NodeOf(childOp)) THEN TRUE
    ELSE FALSE

\* lines 375-381: the flag the loop leaves in entry childOp
SkipAfterZSort(childOp, skip) ==
    IF IsZTranslated(NodeOf(childOp)) THEN TRUE
    ELSE IF ~properties[NodeOf(childOp)].mProjectBackwards THEN FALSE
    ELSE skip

\* RenderNode::buildZSortedChildList(zTranslatedNodes) on node n: the list built
buildZSortedChildList(n) ==
    StableSort(CollectZ(Children(mDisplayListData[n]), 1))

\* ... and the flags it leaves
buildZSortedChildFlags(n) ==
    LET kids == {EntryOf(Children(mDisplayListData[n])[i]) :
                    i \in 1..Len(Children(mDisplayListData[n]))}
    IN  [e \in Entries |-> IF e \in kids THEN SkipAfterZSort(e, mSkipInOrderDraw[e])
                           ELSE mSkipInOrderDraw[e]]

\* findNonNegativeIndex(zTranslatedNodes): index (from 0) of the first key >= 0, else size
findNonNegativeIndex(z) ==
    LET nonNeg == {i \in 1..Len(z) : Key(z[i]) >= 0}
    IN  IF nonNeg = {} THEN Len(z)
        ELSE (CHOOSE i \in nonNeg : \A j \in nonNeg : i <= j) - 1

\* the test of the last bucket for the positive mode is left out
No3dChildrenNegativeOnly(z, mode) ==
    IF Len(z) = 0 THEN TRUE
    ELSE IF mode = "kNegativeZChildren" THEN Key(z[1]) > 0
    ELSE FALSE

\* lines 394-396: there are no 3d children to draw in this mode
No3dChildren(z, mode) ==
    IF Len(z) = 0 THEN TRUE
    ELSE IF mode = "kNegativeZChildren" THEN Key(z[1]) > 0
    ELSE Key(z[Len(z)]) < 0

\* shadows of casters of similar height are not grouped
ShadowNowUngrouped(f) ==
    f.shadowIndex < f.endIndex /\ f.shadowIndex = f.drawIndex

\* line 433: the shadow of the caster at shadowIndex is attempted now
ShadowNow(f) ==
    IF f.shadowIndex < f.endIndex
    THEN IF f.shadowIndex = f.drawIndex THEN TRUE
         ELSE Key(f.zTranslatedNodes[f.shadowIndex + 1]) - f.lastCasterZ < SHADOW_DELTA
    ELSE FALSE

\* line 435: the caster casts a shadow
CastsShadowNow(caster) ==
    properties[caster].mCastsShadow /\ properties[caster].mAlpha > 0

\* DrawDisplayListOp::defer / replay: the child is dispatched unless its entry is
\* flagged to be skipped by the in-order draw
DrawsChild(op, skip) == IsChildOp(op) /\ ~skip[EntryOf(op)]

\* ------------------------------------------------------------- actions
\* what a step of the dispatch never writes
stepFixed == <<mDisplayListData, properties, mDestroyed, mTransformFromParent,
               quickRejectAnswer, pendingFrames, mProjectedNodes, mTransformFromCompositingAncestor,
               pendingDestroy, pendingMutations, heapVars, orderRuns, prevOrder,
               flaggedByPass>>

OrderResult == [proj |-> mProjectedNodes, skip |-> mSkipInOrderDraw,
                tfca |-> mTransformFromCompositingAncestor]

\* RenderNode::computeOrdering() on the root of the frame
ComputeOrdering ==
    /\ ~aborted
    /\ stack = <<>>
    /\ orderRuns < MaxOrderRuns
    /\ LET st == computeOrdering(Root) IN
        /\ mProjectedNodes' = st.proj
        /\ mSkipInOrderDraw' = st.skip
        /\ mTransformFromCompositingAncestor' = st.tfca
    /\ orderRuns' = orderRuns + 1
    /\ prevOrder' = IF orderRuns = 0 THEN NULL ELSE Ptr(OrderResult)
    /\ flaggedByPass' = flaggedByPass \cup
          {e \in Entries : \E n \in Nodes :
              \E i \in 1..Len(computeOrdering(Root).appended[n]) :
                  computeOrdering(Root).appended[n][i] = e}
    /\ UNCHANGED <<treeVars, renderer, pendingDestroy, runVars, aborted>>

\* the DisplayListData object node n points to has been deleted
Dangling(n) == dataId[n] # 0 /\ deleted[dataId[n]] > 0

\* The ordering pass reads mDisplayListData of a node whose destructor has run, or
\* a DisplayListData that has been deleted (lines 259, 272): a read through a
\* dangling pointer.  It may fault; when it does not, the freed list is still read
\* as it was (ComputeOrdering).
ComputeOrderingFreed ==
    /\ ~aborted
    /\ stack = <<>>
    /\ orderRuns < MaxOrderRuns
    /\ \E n \in computeOrdering(Root).visited : mDestroyed[n] \/ Dangling(n)
    /\ aborted' = TRUE
    /\ UNCHANGED <<treeVars, orderVars, mSkipInOrderDraw, renderer, pendingDestroy,
                   runVars, ghostVars>>

\* RenderNode::~RenderNode() on the next node its owner deletes (lines 54-59)
Destructor ==
    /\ ~aborted
    /\ stack = <<>>
    /\ pendingDestroy # <<>>
    /\ LET n == Head(pendingDestroy) IN
        IF mDestroyed[n]
        THEN /\ aborted' = TRUE          \* LOG_ALWAYS_FATAL_IF(mDestroyed, ...)
             /\ UNCHANGED <<mDestroyed, deleted>>
        ELSE /\ mDestroyed' = [mDestroyed EXCEPT ![n] = TRUE]
             \* delete mDisplayListData; deleting an object twice may fault
             /\ deleted' = IF dataId[n] # 0 THEN [deleted EXCEPT ![dataId[n]] = @ + 1]
                           ELSE deleted
             /\ aborted' \in IF Dangling(n) THEN BOOLEAN ELSE {FALSE}
    /\ pendingDestroy' = Tail(pendingDestroy)
    /\ orderRuns' = 0
    /\ prevOrder' = NULL
    /\ UNCHANGED <<mDisplayListData, properties, mTransformFromParent, quickRejectAnswer,
                   pendingFrames, pendingMutations, dataId, passed, orderVars,
                   mSkipInOrderDraw, renderer, runVars, flaggedByPass>>

\* what the frames before a change of the tree handed on says nothing about the
\* tree after it
ForgetFrames ==
    /\ handlerKind' = "none"
    /\ trace' = <<>>
    /\ calls' = <<>>
    /\ finished' = [k \in HandlerKinds |-> NULL]
    /\ UNCHANGED stack

\* the owner's next call is of the given kind
NextMutation(kind) ==
    /\ ~aborted
    /\ stack = <<>>
    /\ pendingMutations # <<>>
    /\ Head(pendingMutations).kind = kind

\* RenderNode::setData(data) (lines 68-74).  Line 69 deletes the object the node
\* points to, also when it is the object passed: line 72 then reads functorCount
\* from a deleted object; deleting a deleted object and calling the method on a
\* destroyed node are undefined likewise.  Each may fault or go unnoticed.
SetData ==
    /\ NextMutation("setData")
    /\ LET m == Head(pendingMutations)
           n == m.node
           undefined == \/ mDestroyed[n]
                        \/ Dangling(n)
                        \/ (m.id # 0 /\ m.id = dataId[n])
       IN  /\ deleted' = IF dataId[n] # 0 THEN [deleted EXCEPT ![dataId[n]] = @ + 1]
                         ELSE deleted
           /\ mDisplayListData' = [mDisplayListData EXCEPT ![n] = m.data]
           /\ dataId' = [dataId EXCEPT ![n] = m.id]
           /\ passed' = [passed EXCEPT ![n] = Append(@, m.id)]
           /\ aborted' \in IF undefined THEN BOOLEAN ELSE {FALSE}
    /\ pendingMutations' = Tail(pendingMutations)
    /\ orderRuns' = 0
    /\ prevOrder' = NULL
    /\ ForgetFrames
    /\ UNCHANGED <<properties, mDestroyed, mTransformFromParent, quickRejectAnswer,
                   pendingFrames, pendingDestroy, orderVars, mSkipInOrderDraw, renderer,
                   flaggedByPass>>

\* the owner sets a property of a node between two frames: mProjectBackwards or
\* mTranslationZ, both read through properties()
SetProperty ==
    /\ NextMutation("setProperty")
    /\ LET m == Head(pendingMutations)
       IN  properties' =
              [properties EXCEPT ![m.node] =
                  IF m.field = "mProjectBackwards"
                  THEN [@ EXCEPT !.mProjectBackwards = m.flag]
                  ELSE [@ EXCEPT !.mTranslationZ = m.z]]
    /\ pendingMutations' = Tail(pendingMutations)
    /\ orderRuns' = 0
    /\ prevOrder' = NULL
    /\ ForgetFrames
    /\ UNCHANGED <<mDisplayListData, mDestroyed, mTransformFromParent, quickRejectAnswer,
                   pendingFrames, pendingDestroy, heapVars, orderVars, mSkipInOrderDraw,
                   renderer, aborted, flaggedByPass>>

\* lines 334-337 and 356-361: a handler of the given kind is made and iterate() is
\* entered on the root; the ordering pass has run before (line 248)
StartDispatch(kind) ==
    /\ ~aborted
    /\ stack = <<>>
    /\ orderRuns >= 1
    /\ pendingFrames # <<>>
    /\ Head(pendingFrames) = kind
    /\ pendingFrames' = Tail(pendingFrames)
    /\ handlerKind' = kind
    /\ stack' = <<Frame("iterate", Root, 1, "-")>>
    /\ trace' = <<>>
    /\ calls' = <<Root>>
    /\ orderRuns' = 0
    /\ prevOrder' = NULL
    /\ renderer' = [renderer EXCEPT !.alphaSetup = <<>>]
    /\ UNCHANGED <<mDisplayListData, properties, mDestroyed, mTransformFromParent,
                   quickRejectAnswer, orderVars, mSkipInOrderDraw,
                   pendingDestroy, pendingMutations, heapVars, finished, aborted,
                   flaggedByPass>>

\* RenderNode::defer(deferStruct, level)
Defer == StartDispatch("defer")

\* RenderNode::replay(replayStruct, level)
Replay == StartDispatch("replay")

\* a destroyed node is skipped like an empty one
IterateDestroyedReturns ==
    /\ Running("iterate", "begin")
    /\ mDestroyed[Top.node]
    /\ Continue(Tail(stack), trace)
    /\ UNCHANGED <<stepFixed, mSkipInOrderDraw, renderer, aborted, calls>>

\* lines 507-510: drawing after destruction
IterateDestroyed ==
    /\ Running("iterate", "begin")
    /\ mDestroyed[Top.node]
    /\ aborted' = TRUE
    /\ UNCHANGED <<stepFixed, mSkipInOrderDraw, renderer, runVars>>

\* line 511 with mDisplayListData == NULL: isEmpty() is called through a null
\* pointer.  The read faults, or it reads an empty list and iterate() returns.
IterateNullData ==
    /\ Running("iterate", "begin")
    /\ ~mDestroyed[Top.node]
    /\ mDisplayListData[Top.node] = NULL
    /\ \/ /\ aborted' = TRUE
          /\ UNCHANGED runVars
       \/ /\ Continue(Tail(stack), trace)
          /\ UNCHANGED <<aborted, calls>>
    /\ UNCHANGED <<stepFixed, mSkipInOrderDraw, renderer>>

\* line 511 on a node whose DisplayListData has been deleted: isEmpty() reads a
\* freed object.  The read faults, or the list is still read as it was.
IterateFreedData ==
    /\ Running("iterate", "begin")
    /\ ~mDestroyed[Top.node]
    /\ mDisplayListData[Top.node] # NULL
    /\ Dangling(Top.node)
    /\ aborted' = TRUE
    /\ UNCHANGED <<stepFixed, mSkipInOrderDraw, renderer, runVars>>

\* the alpha test is left out
SkipsDispatchEmptyOnly(n) == isEmpty(mDisplayListData[n])

\* line 511: the op list is empty or the node is fully transparent
SkipsDispatch(n) == isEmpty(mDisplayListData[n]) \/ properties[n].mAlpha <= 0

\* lines 511-514
IterateEmpty ==
    /\ Running("iterate", "begin")
    /\ ~mDestroyed[Top.node]
    /\ mDisplayListData[Top.node] # NULL
    /\ SkipsDispatch(Top.node)
    /\ Continue(Tail(stack), trace)
    /\ UNCHANGED <<stepFixed, mSkipInOrderDraw, renderer, aborted, calls>>

\* the save count is read after the Save has been handed on
IterateSaveReadsLate ==
    /\ Running("iterate", "begin")
    /\ ~mDestroyed[Top.node]
    /\ mDisplayListData[Top.node] # NULL
    /\ ~SkipsDispatch(Top.node)
    /\ LET ev == Invocation(SaveOp, PROPERTY_SAVECOUNT, Top, "save", 0)
       IN  /\ renderer' = ApplyToRenderer(renderer, ev.op, ev.saveCount)
           /\ Continue(Replace([Top EXCEPT !.pc = "props",
                                           !.restoreTo = renderer'.saveCount]),
                       Append(trace, ev))
    /\ UNCHANGED <<stepFixed, mSkipInOrderDraw, aborted, calls>>

\* lines 523-526
IterateSave ==
    /\ Running("iterate", "begin")
    /\ ~mDestroyed[Top.node]
    /\ mDisplayListData[Top.node] # NULL
    /\ ~SkipsDispatch(Top.node)
    /\ LET ev == Invocation(SaveOp, PROPERTY_SAVECOUNT, Top, "save", 0)
       IN  /\ renderer' = ApplyToRenderer(renderer, ev.op, ev.saveCount)
           /\ Continue(Replace([Top EXCEPT !.pc = "props",
                                           !.restoreTo = renderer.saveCount]),
                       Append(trace, ev))
    /\ UNCHANGED <<stepFixed, mSkipInOrderDraw, aborted, calls>>

\* line 531
IterateProperties ==
    /\ Running("iterate", "props")
    /\ LET evs == setViewProperties(Top)
       IN  /\ renderer' = ApplyAll(setViewPropertiesAlpha(Top, renderer), evs)
           /\ Continue(Replace([Top EXCEPT !.pc = "cull"]), trace \o evs)
    /\ UNCHANGED <<stepFixed, mSkipInOrderDraw, aborted, calls>>

\* the answer of the renderer is used whether or not the node clips to its bounds
QuickRejectedUnclipped(n) == quickRejectAnswer[n]

\* line 533
QuickRejected(n) == properties[n].mClipToBounds /\ quickRejectAnswer[n]

\* lines 533-539: the visibility test, the Z sort and the call of the negative Z pass
IterateCull ==
    /\ Running("iterate", "cull")
    /\ IF QuickRejected(Top.node)
       THEN /\ Continue(Replace([Top EXCEPT !.pc = "restore"]), trace)
            /\ UNCHANGED mSkipInOrderDraw
       ELSE LET z == buildZSortedChildList(Top.node)
                sub == [Frame("iterate3d", Top.node, Top.call, "kNegativeZChildren")
                           EXCEPT !.zTranslatedNodes = z]
            IN  /\ mSkipInOrderDraw' = buildZSortedChildFlags(Top.node)
                /\ Continue(<<sub>> \o Replace([Top EXCEPT !.pc = "ops",
                                                           !.zTranslatedNodes = z]),
                            trace)
    /\ UNCHANGED <<stepFixed, renderer, aborted, calls>>

\* the frames pushed when the handler is handed op: DrawDisplayListOp::defer / replay
\* enter iterate() on the child through RenderNode::defer / replay
ChildCall(op, skip) ==
    IF DrawsChild(op, skip)
    THEN <<Frame("iterate", NodeOf(EntryOf(op)), Len(calls) + 1, "-")>>
    ELSE <<>>

\* lines 396-399: iterate3dChildren returns at once
Iterate3dNone ==
    /\ Running("iterate3d", "begin")
    /\ No3dChildren(Top.zTranslatedNodes, Top.mode)
    /\ Continue(Tail(stack), trace)
    /\ UNCHANGED <<stepFixed, mSkipInOrderDraw, renderer, aborted, calls>>

\* the negative pass runs on to the end of the list
DrawEndOfList(z, mode) == Len(z)

\* lines 416-424: where the draws and the shadows of this mode start and end
DrawStart(z, mode) == IF mode = "kNegativeZChildren" THEN 0 ELSE findNonNegativeIndex(z)
DrawEnd(z, mode) == IF mode = "kNegativeZChildren" THEN findNonNegativeIndex(z) ELSE Len(z)
ShadowStart(z, mode) ==
    IF mode = "kNegativeZChildren" THEN DrawEnd(z, mode) ELSE DrawStart(z, mode)

\* lines 401-425
Iterate3dBegin ==
    /\ Running("iterate3d", "begin")
    /\ ~No3dChildren(Top.zTranslatedNodes, Top.mode)
    /\ LET z == Top.zTranslatedNodes
           ev == Invocation(ClipRectOp(Top.node, "intersect"), PROPERTY_SAVECOUNT,
                            Top, "clip3d", 0)
       IN  /\ renderer' = RendererSave(renderer)
           /\ Continue(Replace([Top EXCEPT !.pc = "loop",
                                           !.rootRestoreTo = renderer.saveCount,
                                           !.drawIndex = DrawStart(z, Top.mode),
                                           !.endIndex = DrawEnd(z, Top.mode),
                                           !.shadowIndex = ShadowStart(z, Top.mode),
                                           !.lastCasterZ = 0]),
                       Append(trace, ev))
    /\ UNCHANGED <<stepFixed, mSkipInOrderDraw, aborted, calls>>

\* lines 427-453: the shadow of the caster at shadowIndex is considered
Iterate3dShadow ==
    /\ Running("iterate3d", "loop")
    /\ ShadowNow(Top)
    /\ LET pair == Top.zTranslatedNodes[Top.shadowIndex + 1]
           casterOp == Value(pair)
           caster == NodeOf(casterOp)
           shadowMatrixXY ==
               applyViewPropertyTransforms(caster, mTransformFromParent[casterOp], FALSE)
           shadowMatrixZ ==
               applyViewPropertyTransforms(caster, mTransformFromParent[casterOp], TRUE)
           ev == Invocation(DrawShadowOp(casterOp, shadowMatrixXY, shadowMatrixZ,
                                         properties[caster].mAlpha),
                            PROPERTY_SAVECOUNT, Top, "shadow", Top.shadowIndex)
       IN  Continue(Replace([Top EXCEPT !.lastCasterZ = Key(pair),
                                        !.shadowIndex = @ + 1]),
                    IF CastsShadowNow(caster) THEN Append(trace, ev) ELSE trace)
    /\ UNCHANGED <<stepFixed, mSkipInOrderDraw, renderer, aborted, calls>>

\* lines 458-465: the child at drawIndex is handed to the handler
Iterate3dDraw ==
    /\ Running("iterate3d", "loop")
    /\ ~ShadowNow(Top)
    /\ ~(Top.shadowIndex >= Top.endIndex /\ Top.drawIndex >= Top.endIndex)
    /\ LET childOp == Value(Top.zTranslatedNodes[Top.drawIndex + 1])
           saved == RendererSave(renderer)
           skip == [mSkipInOrderDraw EXCEPT ![childOp] = FALSE]
           ev == Invocation(ChildOp(childOp), saved.saveCount - 1, Top, "draw3d", Top.drawIndex)
           sub == ChildCall(ev.op, skip)
       IN  /\ renderer' = saved
           /\ mSkipInOrderDraw' = skip
           /\ calls' = calls \o [k \in 1..Len(sub) |-> sub[k].node]
           /\ Continue(sub \o Replace([Top EXCEPT !.pc = "afterdraw",
                                                  !.restoreTo = renderer.saveCount]),
                       Append(trace, ev))
    /\ UNCHANGED <<stepFixed, aborted>>

\* the flag is not set again after the draw
Iterate3dAfterDrawFlagLeft ==
    /\ Running("iterate3d", "afterdraw")
    /\ renderer' = RendererRestoreToCount(renderer, Top.restoreTo)
    /\ Continue(Replace([Top EXCEPT !.pc = "loop", !.drawIndex = @ + 1]), trace)
    /\ UNCHANGED <<stepFixed, mSkipInOrderDraw, aborted, calls>>

\* lines 466-469
Iterate3dAfterDraw ==
    /\ Running("iterate3d", "afterdraw")
    /\ LET childOp == Value(Top.zTranslatedNodes[Top.drawIndex + 1])
       IN  mSkipInOrderDraw' = [mSkipInOrderDraw EXCEPT ![childOp] = TRUE]
    /\ renderer' = RendererRestoreToCount(renderer, Top.restoreTo)
    /\ Continue(Replace([Top EXCEPT !.pc = "loop", !.drawIndex = @ + 1]), trace)
    /\ UNCHANGED <<stepFixed, aborted, calls>>

\* line 471
Iterate3dEnd ==
    /\ Running("iterate3d", "loop")
    /\ ~(Top.shadowIndex < Top.endIndex \/ Top.drawIndex < Top.endIndex)
    /\ LET ev == Invocation(RestoreToCountOp(Top.rootRestoreTo), PROPERTY_SAVECOUNT,
                            Top, "restore3d", 0)
       IN  /\ renderer' = ApplyToRenderer(renderer, ev.op, ev.saveCount)
           /\ Continue(Tail(stack), Append(trace, ev))
    /\ UNCHANGED <<stepFixed, mSkipInOrderDraw, aborted, calls>>

\* lines 476-480
ProjectedBegin ==
    /\ Running("iterateProjectedChildren", "begin")
    /\ LET ev == Invocation(ClipRectOp(Top.node, "replace"), PROPERTY_SAVECOUNT,
                            Top, "clipProjected", 0)
       IN  /\ renderer' = RendererSave(renderer)
           /\ Continue(Replace([Top EXCEPT !.pc = "loop",
                                           !.rootRestoreTo = renderer.saveCount,
                                           !.i = 0]),
                       Append(trace, ev))
    /\ UNCHANGED <<stepFixed, mSkipInOrderDraw, aborted, calls>>

\* lines 482-489: the projected entry at index i is handed to the handler
ProjectedDraw ==
    /\ Running("iterateProjectedChildren", "loop")
    /\ Top.i < Len(mProjectedNodes[Top.node])
    /\ LET childOp == mProjectedNodes[Top.node][Top.i + 1]
           saved == RendererSave(renderer)
           skip == [mSkipInOrderDraw EXCEPT ![childOp] = FALSE]
           ev == Invocation(ChildOp(childOp), saved.saveCount - 1, Top, "drawProjected", Top.i)
           sub == ChildCall(ev.op, skip)
       IN  /\ renderer' = saved
           /\ mSkipInOrderDraw' = skip
           /\ calls' = calls \o [k \in 1..Len(sub) |-> sub[k].node]
           /\ Continue(sub \o Replace([Top EXCEPT !.pc = "afterdraw",
                                                  !.restoreTo = renderer.saveCount]),
                       Append(trace, ev))
    /\ UNCHANGED <<stepFixed, aborted>>

\* lines 490-491
ProjectedAfterDraw ==
    /\ Running("iterateProjectedChildren", "afterdraw")
    /\ LET childOp == mProjectedNodes[Top.node][Top.i + 1]
       IN  mSkipInOrderDraw' = [mSkipInOrderDraw EXCEPT ![childOp] = TRUE]
    /\ renderer' = RendererRestoreToCount(renderer, Top.restoreTo)
    /\ Continue(Replace([Top EXCEPT !.pc = "loop", !.i = @ + 1]), trace)
    /\ UNCHANGED <<stepFixed, aborted, calls>>

\* line 493
ProjectedEnd ==
    /\ Running("iterateProjectedChildren", "loop")
    /\ Top.i >= Len(mProjectedNodes[Top.node])
    /\ LET ev == Invocation(RestoreToCountOp(Top.rootRestoreTo), PROPERTY_SAVECOUNT,
                            Top, "restoreProjected", 0)
       IN  /\ renderer' = ApplyToRenderer(renderer, ev.op, ev.saveCount)
           /\ Continue(Tail(stack), Append(trace, ev))
    /\ UNCHANGED <<stepFixed, mSkipInOrderDraw, aborted, calls>>

\* lines 542-552: the recorded operation at index i is handed to the handler
IterateOp ==
    /\ Running("iterate", "ops")
    /\ Top.i < Len(Deref(mDisplayListData[Top.node]).displayListOps)
    /\ LET saveCountOffset == IF Top.i = 0 THEN renderer.saveCount - 1
                              ELSE Top.saveCountOffset
           op == Deref(mDisplayListData[Top.node]).displayListOps[Top.i + 1]
           ev == Invocation(op, saveCountOffset, Top, "op", Top.i)
           sub == ChildCall(op, mSkipInOrderDraw)
       IN  /\ calls' = calls \o [k \in 1..Len(sub) |-> sub[k].node]
           /\ Continue(sub \o Replace([Top EXCEPT !.pc = "afterop",
                                                  !.saveCountOffset = saveCountOffset]),
                       Append(trace, ev))
    /\ UNCHANGED <<stepFixed, mSkipInOrderDraw, renderer, aborted>>

\* the projected content is spliced in one operation early
ReceivesProjectionEarly(n, i) ==
    /\ i + 1 = Deref(mDisplayListData[n]).projectionReceiveIndex
    /\ Len(mProjectedNodes[n]) > 0

\* line 554: the projected content is due after the operation at index i
ReceivesProjection(n, i) ==
    /\ i = Deref(mDisplayListData[n]).projectionReceiveIndex
    /\ Len(mProjectedNodes[n]) > 0

\* lines 554-557
IterateAfterOp ==
    /\ Running("iterate", "afterop")
    /\ LET sub == IF ReceivesProjection(Top.node, Top.i)
                  THEN <<Frame("iterateProjectedChildren", Top.node, Top.call, "-")>>
                  ELSE <<>>
       IN  Continue(sub \o Replace([Top EXCEPT !.pc = "ops", !.i = @ + 1]), trace)
    /\ UNCHANGED <<stepFixed, mSkipInOrderDraw, renderer, aborted, calls>>

\* line 560: the call of the positive Z pass
IteratePositive ==
    /\ Running("iterate", "ops")
    /\ Top.i >= Len(Deref(mDisplayListData[Top.node]).displayListOps)
    /\ LET sub == [Frame("iterate3d", Top.node, Top.call, "kPositiveZChildren")
                      EXCEPT !.zTranslatedNodes = Top.zTranslatedNodes]
       IN  Continue(<<sub>> \o Replace([Top EXCEPT !.pc = "restore"]), trace)
    /\ UNCHANGED <<stepFixed, mSkipInOrderDraw, renderer, aborted, calls>>

\* lines 563-566
IterateRestore ==
    /\ Running("iterate", "restore")
    /\ LET ev == Invocation(RestoreToCountOp(Top.restoreTo), PROPERTY_SAVECOUNT,
                            Top, "restore", 0)
       IN  /\ renderer' = [ApplyToRenderer(renderer, ev.op, ev.saveCount)
                              EXCEPT !.overrideLayerAlpha = 100]
           /\ Continue(Tail(stack), Append(trace, ev))
    /\ UNCHANGED <<stepFixed, mSkipInOrderDraw, aborted, calls>>

\* ---------------------------------------------------------- initial states
\* RenderProperties of a node with default flags; every node has its own mix of the
\* transform properties read by applyViewPropertyTransforms
BaseProperties(n) ==
    [mAlpha |-> 100, mTranslationZ |-> 0, mProjectBackwards |-> FALSE,
     mCastsShadow |-> FALSE, mClipToBounds |-> FALSE, mCaching |-> FALSE,
     mHasOverlappingRendering |-> TRUE, mClipToOutline |-> FALSE, mOutlineEmpty |-> TRUE,
     mLeftTop |-> n \in {1, 3},
     mStaticMatrix |-> n = 2,
     mAnimationMatrix |-> n \in {2, 3},
     mMatrixFlags |-> IF n = 1 THEN "none" ELSE IF n = 3 THEN "other" ELSE "TRANSLATION"]

\* the trees over Nodes: every entry is recorded in the op list of a smaller node
Shapes == {p \in [Entries -> Nodes] : \A c \in Entries : p[c] < c}
Fan == [c \in Entries |-> Root]
Kids(parent, n) == SortedSeq({c \in Entries : parent[c] = n})

\* the op list recorded for a node that draws kids: a plain operation, the child
\* entries in order, and the remaining plain operations
InnerOps(kids) ==
    <<DrawOp(1)>> \o [i \in 1..Len(kids) |-> ChildOp(kids[i])]
                  \o [i \in 1..(MaxPlainOps - 1) |-> DrawOp(i + 1)]

ReceiveIndex(choice, ops) ==
    IF choice = "none" THEN -1
    ELSE IF choice = "first" THEN 0
    ELSE IF choice = "second" THEN 1
    ELSE Len(ops) - 1

LeafData(choice) ==
    IF choice = "null" THEN NULL
    ELSE Ptr([displayListOps |-> IF choice = "empty" THEN <<>> ELSE <<DrawOp(1)>>,
              projectionReceiveIndex |-> -1])

TreeData(parent, recv, leaf) ==
    [n \in Nodes |->
        IF Kids(parent, n) = <<>> THEN LeafData(leaf[n])
        ELSE Ptr([displayListOps |-> InnerOps(Kids(parent, n)),
                  projectionReceiveIndex |->
                      ReceiveIndex(recv[n], InnerOps(Kids(parent, n)))])]

AllFull == [n \in Nodes |-> "full"]
NoReceiver == [n \in Nodes |-> "none"]

\* state of the objects after construction and recording, before the first frame
InitObjects ==
    /\ mDestroyed = [n \in Nodes |-> FALSE]
    /\ mProjectedNodes = [n \in Nodes |-> <<>>]
    /\ mSkipInOrderDraw = [e \in Entries |-> FALSE]
    /\ mTransformFromParent = [e \in Entries |-> <<<<"transformFromParent", e>>>>]
    /\ mTransformFromCompositingAncestor = [e \in Entries |-> Identity]
    /\ renderer = [saveCount |-> 1, overrideLayerAlpha |-> 100, alphaSetup |-> <<>>]
    /\ stack = <<>>
    /\ handlerKind = "none"
    /\ trace = <<>>
    /\ finished = [k \in HandlerKinds |-> NULL]
    /\ aborted = FALSE
    /\ calls = <<>>
    /\ orderRuns = 0
    /\ prevOrder = NULL
    /\ flaggedByPass = {}

ShadowKinds == {"casts", "castsNot", "transparent"}
\* the second child always casts or is transparent, the third always casts
ShadowChoices == {sh \in [Entries -> ShadowKinds] :
                    sh[3] # "castsNot" /\ sh[4] = "casts"}
\* the Z values 0.00, 0.05, 0.30 and 0.05, 0.10, 0.30 of three siblings
ZFromZero == [e \in Entries |-> IF e = 2 THEN 0 ELSE IF e = 3 THEN 5 ELSE 30]
ZAboveZero == [e \in Entries |-> IF e = 2 THEN 5 ELSE IF e = 3 THEN 10 ELSE 30]
ExampleZ == {ZFromZero, ZAboveZero}
DeferThenReplay == <<"defer", "replay">>

\* a root with three children of any Z, casting shadows or not
InitZ ==
    /\ \E z \in [Entries -> ZValues] \cup ExampleZ, sh \in ShadowChoices :
         properties = [n \in Nodes |->
            IF n = Root THEN BaseProperties(n)
            ELSE [BaseProperties(n) EXCEPT !.mTranslationZ = z[n],
                                           !.mCastsShadow = (sh[n] # "castsNot"),
                                           !.mAlpha = IF sh[n] = "transparent" THEN 0
                                                      ELSE 100]]
    /\ mDisplayListData = TreeData(Fan, NoReceiver, AllFull)
    /\ quickRejectAnswer = [n \in Nodes |-> FALSE]
    /\ pendingDestroy = <<>>
    /\ pendingMutations = <<>>
    /\ pendingFrames = DeferThenReplay

RecvChoices(parent, n) ==
    IF Kids(parent, n) = <<>> THEN {"none"}
    ELSE IF n = Root THEN {"none", "first", "second", "last"}
    ELSE {"none", "first", "last"}

\* every tree shape, with any nodes projecting backwards and any inner nodes
\* receiving projections; the last node may have no or an empty op list
InitProjection ==
    /\ \E pb \in [Entries -> BOOLEAN] :
         properties = [n \in Nodes |->
            IF n = Root THEN BaseProperties(n)
            ELSE [BaseProperties(n) EXCEPT !.mProjectBackwards = pb[n]]]
    /\ \E parent \in Shapes, leaf4 \in {"null", "empty", "full"} :
         \E recv \in [Nodes -> {"none", "first", "second", "last"}] :
            /\ \A n \in Nodes : recv[n] \in RecvChoices(parent, n)
            /\ mDisplayListData =
                  TreeData(parent, recv, [n \in Nodes |-> IF n = 4 THEN leaf4 ELSE "full"])
    /\ quickRejectAnswer = [n \in Nodes |-> FALSE]
    /\ pendingDestroy = <<>>
    /\ pendingMutations = <<>>
    /\ pendingFrames = DeferThenReplay

ClipKinds == {"none", "clip", "clipRejected", "rejectedNoClip"}
OutlineKinds == {"none", "empty", "path"}

\* root -> 2 -> {3, 4}: node 2 with any alpha, layer, clip and outline properties,
\* node 3 raised and casting a shadow, node 4 projecting onto the root
InitProperties ==
    /\ \E alpha \in {0, 50, 100}, caching \in BOOLEAN, overlap \in BOOLEAN,
          clip \in ClipKinds, outline \in OutlineKinds :
         /\ properties = [n \in Nodes |->
              IF n = 2 THEN [BaseProperties(n) EXCEPT
                                !.mAlpha = alpha, !.mCaching = caching,
                                !.mHasOverlappingRendering = overlap,
                                !.mClipToBounds = (clip \in {"clip", "clipRejected"}),
                                !.mClipToOutline = (outline # "none"),
                                !.mOutlineEmpty = (outline # "path")]
              ELSE IF n = 3 THEN [BaseProperties(n) EXCEPT !.mTranslationZ = 5,
                                                           !.mCastsShadow = TRUE]
              ELSE IF n = 4 THEN [BaseProperties(n) EXCEPT !.mProjectBackwards = TRUE]
              ELSE BaseProperties(n)]
         /\ quickRejectAnswer = [n \in Nodes |-> n = 2 /\ clip \in {"clipRejected", "rejectedNoClip"}]
    /\ mDisplayListData =
          TreeData([c \in Entries |-> IF c = 2 THEN 1 ELSE 2],
                   [n \in Nodes |-> IF n = Root THEN "last" ELSE "none"], AllFull)
    /\ pendingDestroy = <<>>
    /\ pendingMutations = <<>>
    /\ pendingFrames \in {DeferThenReplay, <<"replay", "defer">>}

\* root -> {2, 4}, 2 -> 3: the root with no, an empty or a full op list, visible or
\* not, and an owner that deletes nodes
InitLifecycle ==
    /\ \E alpha \in {0, 100} :
         properties = [n \in Nodes |->
            IF n = Root THEN [BaseProperties(n) EXCEPT !.mAlpha = alpha]
            ELSE BaseProperties(n)]
    /\ \E rootData \in {"null", "empty", "full"} :
         mDisplayListData =
            IF rootData = "full"
            THEN TreeData([c \in Entries |-> IF c = 3 THEN 2 ELSE 1], NoReceiver, AllFull)
            ELSE [TreeData([c \in Entries |-> IF c = 3 THEN 2 ELSE 1], NoReceiver, AllFull)
                     EXCEPT ![Root] = LeafData(rootData)]
    /\ quickRejectAnswer = [n \in Nodes |-> FALSE]
    /\ pendingDestroy \in {<<>>, <<1>>, <<2>>, <<3>>, <<4, 4>>}
    /\ pendingMutations = <<>>
    /\ pendingFrames \in {DeferThenReplay, <<"replay", "defer">>, <<"replay">>}

\* the calls an owner makes between frames
SetDataCall(n, id, data) ==
    [kind |-> "setData", node |-> n, id |-> id, data |-> data, field |-> "-",
     flag |-> FALSE, z |-> 0]
SetPropertyCall(n, field, flag, z) ==
    [kind |-> "setProperty", node |-> n, id |-> 0, data |-> NULL, field |-> field,
     flag |-> flag, z |-> z]

\* DisplayListData objects: the one node n is built with is object n, two more are
\* recorded later
ListIds == 1..(Cardinality(Nodes) + 2)
FreshList == Cardinality(Nodes) + 1
Last == CHOOSE n \in Nodes : \A m \in Nodes : m <= n

\* what the owner does to the last node, built with the list leaf, or to its
\* grandparent: new lists, the list it already holds, no list; a property change
DataCalls(leaf) ==
    {<<SetDataCall(Last, FreshList, LeafData("empty"))>>,
     <<SetDataCall(Last, FreshList, LeafData("full")),
       SetDataCall(Last, FreshList, LeafData("full"))>>,
     <<SetDataCall(Last, Last, LeafData(leaf))>>,
     <<SetDataCall(Last, 0, NULL), SetDataCall(Last, FreshList, LeafData("full"))>>,
     <<SetDataCall(2, FreshList, LeafData("full"))>>}
PropertyCalls ==
    {<<SetPropertyCall(Last, "mProjectBackwards", FALSE, 0)>>,
     <<SetPropertyCall(Last, "mTranslationZ", FALSE, 0)>>}

\* root -> 2 -> 3 -> 4 with node 2 receiving projections and node 4 projecting,
\* raised or not, and an owner that replaces lists, changes properties and deletes
InitMutation ==
    /\ \E z \in {0, 5} :
         properties = [n \in Nodes |->
            IF n = Last THEN [BaseProperties(n) EXCEPT !.mProjectBackwards = TRUE,
                                                      !.mTranslationZ = z]
            ELSE BaseProperties(n)]
    /\ \E leaf \in {"empty", "full"} :
         /\ mDisplayListData =
               TreeData([c \in Entries |-> c - 1],
                        [n \in Nodes |-> IF n = 2 THEN "first" ELSE "none"],
                        [n \in Nodes |-> leaf])
         /\ \/ /\ pendingMutations \in DataCalls(leaf)
               /\ pendingDestroy \in {<<>>, <<Last>>}
            \/ /\ pendingMutations \in PropertyCalls
               /\ pendingDestroy = <<>>
    /\ quickRejectAnswer = [n \in Nodes |-> FALSE]
    /\ pendingFrames = <<"replay", "defer">>

\* every node points to the list it was built with; nothing has been deleted
InitHeap ==
    /\ dataId = [n \in Nodes |-> IF mDisplayListData[n] = NULL THEN 0 ELSE n]
    /\ deleted = [id \in ListIds |-> 0]
    /\ passed = [n \in Nodes |-> IF mDisplayListData[n] = NULL THEN <<>> ELSE <<n>>]

Init ==
    /\ InitObjects
    /\ \/ InitZ
       \/ InitProjection
       \/ InitProperties
       \/ InitLifecycle
       \/ InitMutation
    /\ InitHeap

Next ==
    \/ ComputeOrdering
    \/ ComputeOrderingFreed
    \/ Destructor
    \/ SetData
    \/ SetProperty
    \/ Defer
    \/ Replay
    \/ IterateDestroyed
    \/ IterateNullData
    \/ IterateFreedData
    \/ IterateEmpty
    \/ IterateSave
    \/ IterateProperties
    \/ IterateCull
    \/ Iterate3dNone
    \/ Iterate3dBegin
    \/ Iterate3dShadow
    \/ Iterate3dDraw
    \/ Iterate3dAfterDraw
    \/ Iterate3dEnd
    \/ IterateOp
    \/ IterateAfterOp
    \/ ProjectedBegin
    \/ ProjectedDraw
    \/ ProjectedAfterDraw
    \/ ProjectedEnd
    \/ IteratePositive
    \/ IterateRestore

Spec == Init /\ [][Next]_vars

\* ================================================================ claims
\* a dispatch has run to its end, or has been aborted, and nothing ran since
Settled == /\ handlerKind # "none"
           /\ orderRuns = 0
           /\ stack = <<>> \/ aborted
Completed == Settled /\ ~aborted

EventsOf(c, site) == {i \in 1..Len(trace) : trace[i].call = c /\ trace[i].site = site}
OpsOf(n) == Deref(mDisplayListData[n]).displayListOps
ReceiveIndexOf(n) == Deref(mDisplayListData[n]).projectionReceiveIndex

\* the projected content of node n is due after one of its recorded operations
ProjectionDue(n) ==
    /\ ReceiveIndexOf(n) >= 0
    /\ ReceiveIndexOf(n) < Len(OpsOf(n))
    /\ Len(mProjectedNodes[n]) > 0

\* C1 for the iterate() call c
ProjectionPlaced(c) ==
    LET n == calls[c]
        k == ReceiveIndexOf(n)
        P == EventsOf(c, "clipProjected")
        O == EventsOf(c, "op")
    IN  /\ ~ProjectionDue(n) => P = {}
        /\ Cardinality(P) <= 1
        /\ \A i \in P :
              /\ \E j \in O : trace[j].idx = k
              /\ \A j \in O : /\ trace[j].idx <= k => j < i
                              /\ trace[j].idx > k => j > i
        /\ ProjectionDue(n) =>
              \A j \in O \cup EventsOf(c, "restore") :
                 (trace[j].site = "restore" /\ O # {}) \/ (trace[j].site = "op" /\ trace[j].idx > k)
                    => \E i \in P : i < j

\* C1: in every dispatched node that is not quick-rejected, the projected-content
\* sub-pass runs exactly once, after the operation at the projection-receive index
\* has been handed to the handler and before the next one is; it runs nowhere else,
\* and not at all when the index is absent or the projected list is empty.
C1_ProjectionPlacement ==
    Settled =>
        \A c \in 1..Len(calls) :
            mDisplayListData[calls[c]] # NULL => ProjectionPlaced(c)

\* a projected sub-pass ran between two recorded operations of a node
C1_Witness ==
    /\ Completed
    /\ \E i, j, l \in 1..Len(trace) :
          /\ j < i /\ i < l
          /\ trace[i].site = "clipProjected"
          /\ trace[j].site = "op" /\ trace[j].call = trace[i].call
          /\ trace[l].site = "op" /\ trace[l].call = trace[i].call
          /\ trace[i].call > 1

\* C2: a node that is not destroyed and whose alpha is <= 0 or whose op list is
\* empty hands no operation to the handler when it is dispatched: no invocation is
\* issued on behalf of such a node, by any of its passes.
C2_InvisibleEmitsNothing ==
    Settled =>
        \A i \in 1..Len(trace) :
            LET n == trace[i].node
            IN  mDisplayListData[n] # NULL => ~(isEmpty(mDisplayListData[n])
                                               \/ properties[n].mAlpha <= 0)

\* a transparent node with children and a node with an empty op list were dispatched
C2_Witness ==
    /\ Completed
    /\ \E c \in 1..Len(calls) :
          /\ mDisplayListData[calls[c]] # NULL
          /\ ~isEmpty(mDisplayListData[calls[c]])
          /\ properties[calls[c]].mAlpha <= 0
    /\ pendingFrames = <<>>

\* C3: a second ordering pass run right after a first one leaves every projected
\* list, every skip-in-order-draw flag and every transform from the compositing
\* ancestor as the first pass left them.
C3_OrderingIdempotent ==
    orderRuns >= 2 => prevOrder = Ptr(OrderResult)

\* two passes in a row over a tree in which an inner node and the root collected
C3_Witness ==
    /\ orderRuns = 2
    /\ \E n \in Nodes \ {Root} : Len(mProjectedNodes[n]) > 0
    /\ Len(mProjectedNodes[Root]) > 0

IsChildOf(c, n) ==
    /\ mDisplayListData[n] # NULL
    /\ \E i \in 1..Len(OpsOf(n)) : OpsOf(n)[i] = ChildOp(c)

ZListOf(c) == buildZSortedChildList(calls[c])
ShadowEvents(c) == EventsOf(c, "shadow")
PositiveDraws(c) == {j \in EventsOf(c, "draw3d") : trace[j].mode = "kPositiveZChildren"}
CasterAt(z, idx) == NodeOf(Value(z[idx + 1]))

\* the shadows and the draws of the 3d passes of call c
ShadowOrder ==
    Settled =>
        \A c \in 1..Len(calls) :
            /\ \A i \in ShadowEvents(c) :
                  /\ trace[i].mode = "kPositiveZChildren"
                  /\ CastsShadowNow(CasterAt(ZListOf(c), trace[i].idx))
                  /\ \A k \in ShadowEvents(c) : trace[k].idx = trace[i].idx => k = i
            /\ \A j \in PositiveDraws(c) :
                  LET z == ZListOf(c)
                      q == trace[j].idx
                  IN  /\ CastsShadowNow(CasterAt(z, q))
                         => \E i \in ShadowEvents(c) : trace[i].idx = q /\ i < j
                      /\ (/\ q + 1 < Len(z)
                          /\ Key(z[q + 2]) - Key(z[q + 1]) < SHADOW_DELTA
                          /\ CastsShadowNow(CasterAt(z, q + 1)))
                         => \E i \in ShadowEvents(c) : trace[i].idx = q + 1 /\ i < j
            /\ \A i \in ShadowEvents(c) :
                  LET z == ZListOf(c)
                      q == trace[i].idx
                  IN  (/\ q > findNonNegativeIndex(z)
                       /\ Key(z[q + 1]) - Key(z[q]) >= SHADOW_DELTA)
                      => \A lower \in findNonNegativeIndex(z)..(q - 1) :
                            \E j \in PositiveDraws(c) : trace[j].idx = lower /\ j < i

IsPassEvent(ev) ==
    /\ ev.call = 1
    /\ ev.mode = "kPositiveZChildren"
    /\ ev.site \in {"shadow", "draw3d"}

\* what the positive pass of the root hands on: <<site, child entry>> in order
PositivePass ==
    LET evs == SelectSeq(trace, IsPassEvent)
    IN  [k \in 1..Len(evs) |-> <<evs[k].site, Value(ZListOf(1)[evs[k].idx + 1])>>]

\* the root has children 1, 2, 3 of the given Z, all casting shadows
ThreeCasters(zs) ==
    /\ Completed
    /\ \A e \in Entries :
          /\ IsChildOf(e, Root)
          /\ properties[e].mTranslationZ = zs[e]
          /\ CastsShadowNow(e)

GroupedOrder ==
    << <<"shadow", 2>>, <<"shadow", 3>>, <<"draw3d", 2>>, <<"draw3d", 3>>,
       <<"shadow", 4>>, <<"draw3d", 4>> >>

\* C4 as stated: the shadow rules, and for children with Z [0.00, 0.05, 0.30] the
\* positive pass hands on shadow1, shadow2, draw1, draw2, shadow3, draw3.
C4_AsStated ==
    /\ ShadowOrder
    /\ ThreeCasters(ZFromZero) => PositivePass = GroupedOrder

\* C4: in the positive pass each caster that casts a shadow and has alpha > 0 has
\* its shadow handed on exactly once and before its own draw; a caster less than 0.1
\* above the caster considered before it has its shadow handed on before that
\* caster's draw, one 0.1 or more above only after all lower children are drawn; the
\* negative pass hands on no shadow. For Z [0.05, 0.10, 0.30] the order is shadow1,
\* shadow2, draw1, draw2, shadow3, draw3; for Z [0.00, 0.05, 0.30] the first child is
\* not in the Z-bucket list and the pass hands on shadow2, draw2, shadow3, draw3.
C4_ShadowOrder ==
    /\ ShadowOrder
    /\ ThreeCasters(ZAboveZero) => PositivePass = GroupedOrder
    /\ ThreeCasters(ZFromZero) =>
          PositivePass = << <<"shadow", 3>>, <<"draw3d", 3>>, <<"shadow", 4>>, <<"draw3d", 4>> >>

\* three casters of Z [0.05, 0.10, 0.30] have been drawn
C4_Witness ==
    /\ ThreeCasters(ZAboveZero)
    /\ Len(PositivePass) = 6

\* position of entry e among the child entries of node n
ChildPosition(n, e) ==
    CHOOSE i \in 1..Len(Children(mDisplayListData[n])) :
        EntryOf(Children(mDisplayListData[n])[i]) = e

ZListOrdered(n, z) ==
    /\ \A i \in 1..Len(z) : Key(z[i]) = properties[NodeOf(Value(z[i]))].mTranslationZ
    /\ \A i, j \in 1..Len(z) :
          i < j => /\ Key(z[i]) <= Key(z[j])
                   /\ Key(z[i]) = Key(z[j])
                         => ChildPosition(n, Value(z[i])) < ChildPosition(n, Value(z[j]))

\* C5: the Z-bucket list a 3d pass is handed after the Z sort is in ascending Z
\* order, and children of equal Z are in it in the order of the child-entry list.
C5_ZSortStable ==
    \A k \in 1..Len(stack) :
        stack[k].fn = "iterate3d" => ZListOrdered(stack[k].node, stack[k].zTranslatedNodes)

\* a sorted list with two children of one Z and a child of another Z
C5_Witness ==
    /\ stack # <<>>
    /\ Top.fn = "iterate3d"
    /\ LET z == Top.zTranslatedNodes
       IN  /\ Len(z) = 3
           /\ \E i, j \in 1..Len(z) : i # j /\ Key(z[i]) = Key(z[j])
           /\ \E i, j \in 1..Len(z) : Key(z[i]) # Key(z[j])
           /\ \E i \in 1..Len(z) : Value(z[i]) # EntryOf(Children(mDisplayListData[Top.node])[i])

Modes == {"kNegativeZChildren", "kPositiveZChildren"}

\* the list holds a bucket of the mode: a negative Z, or a Z that is not negative
HasBucket(z, mode) ==
    \E i \in 1..Len(z) :
        IF mode = "kNegativeZChildren" THEN Key(z[i]) < 0 ELSE Key(z[i]) >= 0

IsPrefix(a, b) == Len(a) <= Len(b) /\ \A i \in 1..Len(a) : a[i] = b[i]

\* indexes (from 0) of the buckets of the mode: below the split index, or from it on
BucketsOf(z, mode) ==
    LET lo == IF mode = "kNegativeZChildren" THEN 0 ELSE findNonNegativeIndex(z)
        hi == IF mode = "kNegativeZChildren" THEN findNonNegativeIndex(z) ELSE Len(z)
    IN  [k \in 1..(hi - lo) |-> lo + k - 1]

PassEvents(c, mode) == {i \in 1..Len(trace) : trace[i].call = c /\ trace[i].mode = mode}

\* indexes of the buckets drawn by the pass of call c in the mode, in order
DrawnBuckets(c, mode) ==
    LET IsDraw(ev) == ev.call = c /\ ev.mode = mode /\ ev.site = "draw3d"
        evs == SelectSeq(trace, IsDraw)
    IN  [k \in 1..Len(evs) |-> evs[k].idx]

PassDraws ==
    Settled =>
        \A c \in 1..Len(calls), mode \in Modes :
            PassEvents(c, mode) # {} =>
                /\ HasBucket(ZListOf(c), mode)
                /\ IsPrefix(DrawnBuckets(c, mode), BucketsOf(ZListOf(c), mode))
                /\ (\E i \in PassEvents(c, mode) : trace[i].site = "restore3d")
                      => DrawnBuckets(c, mode) = BucketsOf(ZListOf(c), mode)

\* a 3d pass entered with no bucket of its mode returns at once
EmptyPassStep ==
    (Running("iterate3d", "begin") /\ ~HasBucket(Top.zTranslatedNodes, Top.mode))
        => /\ renderer' = renderer
           /\ trace' = trace
           /\ stack' = Tail(stack)

\* a 3d pass entered with a bucket of its mode saves and clips
FullPassStep ==
    (Running("iterate3d", "begin") /\ HasBucket(Top.zTranslatedNodes, Top.mode))
        => /\ renderer'.saveCount = renderer.saveCount + 1
           /\ Len(trace') = Len(trace) + 1
           /\ trace'[Len(trace')].site = "clip3d"

\* C6: a 3d pass whose list has no bucket of its mode (negative mode: empty or no
\* negative Z; positive mode: empty or only negative Z) hands nothing to the handler
\* and saves nothing in the renderer; any other pass draws exactly the buckets below
\* the split index (negative mode) or from the split index on (positive mode).
C6_SplitPasses == []PassDraws /\ [][EmptyPassStep /\ FullPassStep]_vars

\* a node with buckets on one side only has been through both of its passes
C6_Witness ==
    /\ Completed
    /\ \E c \in 1..Len(calls) :
          /\ mDisplayListData[calls[c]] # NULL
          /\ Len(ZListOf(c)) >= 2
          /\ ~HasBucket(ZListOf(c), "kNegativeZChildren")
          /\ \E i \in PassEvents(c, "kPositiveZChildren") : trace[i].site = "restore3d"

\* receiver R, its non-projecting child P and P's projecting child G with content
ReceiverChain(R, P, G) ==
    /\ mDisplayListData[R] # NULL
    /\ ReceiveIndexOf(R) >= 0
    /\ IsChildOf(P, R)
    /\ ~properties[P].mProjectBackwards
    /\ IsChildOf(G, P)
    /\ properties[G].mProjectBackwards
    /\ mDisplayListData[G] # NULL
    /\ ~isEmpty(mDisplayListData[G])

InSeq(x, seq) == \E i \in 1..Len(seq) : seq[i] = x

\* C7: after the ordering pass, the projecting grandchild G of a receiver R whose
\* parent P does not project is recorded with the transform
\* identity * P.entry.snapshot * P.propertyTransforms * G.entry.snapshot, which has
\* no factor of R or of R's ancestors, and G's entry is in R's projected list.
C7_ReceiverTransform ==
    orderRuns >= 1 =>
        \A R, P, G \in Nodes :
            ReceiverChain(R, P, G) =>
                /\ mTransformFromCompositingAncestor[G] =
                      Multiply(applyViewPropertyTransforms(P,
                                   Multiply(Identity, mTransformFromParent[P]), FALSE),
                               mTransformFromParent[G])
                /\ InSeq(G, mProjectedNodes[R])

\* the pass has run over such a chain below the root
C7_Witness ==
    /\ orderRuns >= 1
    /\ \E R, P, G \in Nodes : R # Root /\ ReceiverChain(R, P, G)

\* C8: when iterate() is entered on a destroyed node the process is aborted: the
\* call hands nothing to the handler, goes no further than its entry and does not
\* return.
C8_DestroyedAborts ==
    stack # <<>> =>
        \A c \in 1..Len(calls) :
            mDestroyed[calls[c]] =>
                /\ \A i \in 1..Len(trace) : trace[i].call # c
                /\ Top.call = c /\ Top.fn = "iterate" /\ Top.pc = "begin"

\* the dispatch was aborted at a destroyed node below the root
C8_Witness ==
    /\ aborted
    /\ stack # <<>>
    /\ Top.fn = "iterate"
    /\ mDestroyed[Top.node]
    /\ Top.node # Root
    /\ trace # <<>>

\* C9: dispatching a node that is not destroyed and has no op list returns early:
\* nothing is handed to the handler and the process is not aborted.
C9_NullDataReturns ==
    /\ \A i \in 1..Len(trace) : mDisplayListData[trace[i].node] # NULL
    /\ ~(/\ aborted
         /\ stack # <<>>
         /\ Top.fn = "iterate"
         /\ Top.pc = "begin"
         /\ ~mDestroyed[Top.node]
         /\ mDisplayListData[Top.node] = NULL)

\* C10: the defer handler and the replay handler are handed the same sequence of
\* (operation, saveCountOffset, clipToBounds) by the dispatches of one tree.
C10_HandlersAgree ==
    (finished["defer"] # NULL /\ finished["replay"] # NULL) =>
        Triples("defer", Deref(finished["defer"]))
            = Triples("replay", Deref(finished["replay"]))

\* both dispatches ran, through a 3d pass and a projected pass
C10_Witness ==
    /\ finished["defer"] # NULL
    /\ finished["replay"] # NULL
    /\ \E i \in 1..Len(trace) : trace[i].site = "drawProjected"
    /\ \E i \in 1..Len(trace) : trace[i].site = "shadow"

RECURSIVE ReachableWithin(_, _)
\* the nodes reached from the nodes of S by at most k child entries
ReachableWithin(S, k) ==
    IF k = 0 THEN S
    ELSE ReachableWithin(S \cup {c \in Nodes : \E p \in S : IsChildOf(c, p)}, k - 1)

Reachable == ReachableWithin({Root}, Cardinality(Nodes))

NoRepeats(seq) == \A i, j \in 1..Len(seq) : seq[i] = seq[j] => i = j

\* an ordering pass from the root completes in this step
PassCompletes == orderRuns' = orderRuns + 1

\* C11: whatever passes, list replacements and property changes came before, when an
\* ordering pass from the root completes the projected list of every node reachable
\* from the root holds exactly the entries that pass appended to it, in that order,
\* and none of them twice.
C11_ListsRebuilt ==
    [][PassCompletes =>
          \A n \in Reachable :
              /\ mProjectedNodes'[n] = computeOrdering(Root).appended[n]
              /\ NoRepeats(mProjectedNodes'[n])]_vars

\* a pass has completed after the last node stopped projecting: the transform an
\* earlier pass stored for its entry is still there, the entry is in no list
C11_Witness ==
    /\ orderRuns >= 1
    /\ ~aborted
    /\ pendingMutations = <<>>
    /\ ~properties[Last].mProjectBackwards
    /\ mTransformFromCompositingAncestor[Last] # Identity
    /\ \A n \in Nodes : mProjectedNodes[n] = <<>>
    /\ Last \in Reachable

\* the objects node n was given before the one it was given last
HeldBefore(n) == {passed[n][i] : i \in 1..(Len(passed[n]) - 1)}

\* C12: after any sequence of setData calls a node holds the list passed last, each
\* list it held before has been deleted exactly once, and the list it holds has not
\* been deleted, also when the list passed was the one it already held.
C12_ReplaceKeepsOne ==
    ~aborted =>
        \A n \in Nodes :
            (~mDestroyed[n] /\ passed[n] # <<>>) =>
                /\ dataId[n] = passed[n][Len(passed[n])]
                /\ dataId[n] # 0 => deleted[dataId[n]] = 0
                /\ \A id \in HeldBefore(n) \ {0, dataId[n]} : deleted[id] = 1

\* C13: the ordering pass never traverses a destroyed node: a pass that reaches one
\* aborts the process, so no pass completes having read or cleared the lists of a
\* destroyed node.
C13_DestroyedNotOrdered ==
    (orderRuns >= 1 /\ ~aborted) =>
        \A n \in computeOrdering(Root).visited : ~mDestroyed[n]

\* the handler invocations of the iterate() call c, in order
CallTrace(c) ==
    LET OfCall(ev) == ev.call = c
    IN  SelectSeq(trace, OfCall)

Dispatched(c) == EventsOf(c, "save") # {}
Returned(c) == EventsOf(c, "restore") # {}

\* the stage of iterate() an invocation belongs to
Phase(ev) ==
    IF ev.site = "save" THEN 1
    ELSE IF ev.site = "property" THEN 2
    ELSE IF ev.mode = "kNegativeZChildren" THEN 3
    ELSE IF ev.site \in {"op", "clipProjected", "drawProjected", "restoreProjected"} THEN 4
    ELSE IF ev.mode = "kPositiveZChildren" THEN 5
    ELSE 6

\* the recorded operations handed on by call c are the first ones, in recorded order
OpsInOrder(c) ==
    LET IsOp(ev) == ev.call = c /\ ev.site = "op"
        evs == SelectSeq(trace, IsOp)
    IN  /\ Len(evs) <= Len(OpsOf(calls[c]))
        /\ \A k \in 1..Len(evs) : evs[k].idx = k - 1 /\ evs[k].op = OpsOf(calls[c])[k]
        /\ Returned(c) => Len(evs) = Len(OpsOf(calls[c]))

\* the draws of a 3d pass of call c go up in Z and stay on their side of zero
DrawsAscend(c, mode) ==
    LET d == DrawnBuckets(c, mode)
        z == ZListOf(c)
    IN  /\ \A k \in 1..Len(d) :
              /\ IF mode = "kNegativeZChildren" THEN Key(z[d[k] + 1]) < 0
                 ELSE Key(z[d[k] + 1]) >= 0
              /\ k > 1 => d[k - 1] < d[k] /\ Key(z[d[k - 1] + 1]) <= Key(z[d[k] + 1])
        /\ Returned(c) => d = BucketsOf(z, mode)

DispatchOrder(c) ==
    LET t == CallTrace(c)
    IN  /\ t[1].op = SaveOp
        /\ Cardinality(EventsOf(c, "save")) = 1
        /\ \A i, j \in 1..Len(t) : i < j => Phase(t[i]) <= Phase(t[j])
        /\ OpsInOrder(c)
        /\ \A mode \in Modes : DrawsAscend(c, mode)
        /\ \A i \in EventsOf(c, "shadow") : trace[i].mode = "kPositiveZChildren"
        /\ Returned(c) => /\ t[Len(t)].site = "restore"
                          /\ t[Len(t)].op[1] = "RestoreToCount"
                          /\ Cardinality(EventsOf(c, "restore")) = 1

StagesInOrder ==
    Settled =>
        \A c \in 1..Len(calls) :
            (Dispatched(c) /\ ~QuickRejected(calls[c])) => DispatchOrder(c)

\* the recorded operation handed on in this step draws a child of the Z list
HandsOnZChild ==
    /\ Running("iterate", "ops")
    /\ Top.i < Len(OpsOf(Top.node))
    /\ IsChildOp(OpsOf(Top.node)[Top.i + 1])
    /\ IsZTranslated(NodeOf(EntryOf(OpsOf(Top.node)[Top.i + 1])))

LayersOf(c) == {i \in EventsOf(c, "property") : trace[i].op[1] = "SaveLayer"}

\* the first invocation of a dispatched call is its Save, and the last one of a
\* returned call its RestoreToCount
SaveFirstRestoreLast ==
    Settled =>
        \A c \in 1..Len(calls) :
            Dispatched(c) =>
                LET t == CallTrace(c)
                IN  /\ t[1].op = SaveOp
                    /\ Returned(c) => t[Len(t)].op[1] = "RestoreToCount"
                    /\ \A i \in 2..(Len(t) - 1) : t[i].site \notin {"save", "restore"}

\* between its property operations and its RestoreToCount a call has open only its
\* own Save and SaveLayer: what its sub-passes and children saved is closed again
SavesClosedInside ==
    (/\ ~aborted
     /\ stack # <<>>
     /\ Top.fn = "iterate"
     /\ Top.pc \in {"cull", "ops", "afterop", "restore"})
        => renderer.saveCount = Top.restoreTo + 1 + Cardinality(LayersOf(Top.call))

\* the Save step notes the save count it finds
SaveStep ==
    (Running("iterate", "begin") /\ Len(trace') = Len(trace) + 1)
        => /\ stack'[1].restoreTo = renderer.saveCount
           /\ renderer'.saveCount = renderer.saveCount + 1

\* the last step of a call restores to the count noted by its Save
RestoreStep ==
    Running("iterate", "restore")
        => /\ trace'[Len(trace')].op = RestoreToCountOp(Top.restoreTo)
           /\ trace'[Len(trace')].saveCount = PROPERTY_SAVECOUNT
           /\ renderer'.saveCount = Top.restoreTo

\* a replay that returned left the renderer with the save count it was entered with
ReplayBalanced == (Completed /\ handlerKind = "replay") => renderer.saveCount = 1

\* C15: a dispatched node hands the handler a Save first and last a RestoreToCount
\* to the save count read just before that Save; the saves of its sub-passes and
\* child draws are closed before it; the renderer's save count after a replay equals
\* the count before it.
C15_SavesBalanced ==
    /\ [](SaveFirstRestoreLast /\ SavesClosedInside /\ ReplayBalanced)
    /\ [][SaveStep /\ RestoreStep]_vars

\* a replay with nested draws, a 3d pass and a projected pass has returned
C15_Witness ==
    /\ Completed
    /\ handlerKind = "replay"
    /\ renderer.saveCount = 1
    /\ Len(calls) >= 3
    /\ \A c \in 1..Len(calls) : Dispatched(c) => Returned(c)
    /\ \E i \in 1..Len(trace) : trace[i].site = "restore3d"

\* a quick-rejected call hands on its Save, its property operations and its
\* RestoreToCount and nothing else
RejectedDrawsNothing ==
    Settled =>
        \A c \in 1..Len(calls) :
            (Dispatched(c) /\ QuickRejected(calls[c])) =>
                \A i \in 1..Len(trace) :
                    trace[i].call = c => trace[i].site \in {"save", "property", "restore"}

\* a call on a node that does not clip to its bounds hands on all it recorded
UnclippedDrawsAll ==
    Settled =>
        \A c \in 1..Len(calls) :
            (Dispatched(c) /\ Returned(c) /\ ~properties[calls[c]].mClipToBounds) =>
                Cardinality(EventsOf(c, "op")) = Len(OpsOf(calls[c]))

\* the step after the property operations of a quick-rejected node changes no flag
\* and goes on to the restore; of any other node it sorts and enters the 3d pass
CullStep ==
    Running("iterate", "cull") =>
        IF properties[Top.node].mClipToBounds /\ quickRejectAnswer[Top.node]
        THEN /\ mSkipInOrderDraw' = mSkipInOrderDraw
             /\ stack'[1].fn = "iterate" /\ stack'[1].pc = "restore"
             /\ trace' = trace
        ELSE /\ mSkipInOrderDraw' = buildZSortedChildFlags(Top.node)
             /\ stack'[1].fn = "iterate3d"

\* the last step of a call resets the override layer alpha
ResetStep == Running("iterate", "restore") => renderer'.overrideLayerAlpha = 100

\* C16: a node that clips to its bounds and is quick-rejected hands the handler its
\* Save, its property operations and its RestoreToCount only, the Z sort does not run
\* (no flag changes) and the override layer alpha is reset to 1.0; the answer of
\* the quick reject is not used for a node that does not clip to its bounds.
C16_QuickReject ==
    /\ [](RejectedDrawsNothing /\ UnclippedDrawsAll)
    /\ [][CullStep /\ ResetStep]_vars

\* a quick-rejected node with property operations and a raised override alpha is
\* about to restore
C16_Witness ==
    /\ Running("iterate", "restore")
    /\ QuickRejected(Top.node)
    /\ EventsOf(Top.call, "property") # {}
    /\ renderer.overrideLayerAlpha < 100
    /\ Len(OpsOf(Top.node)) > 0
    /\ EventsOf(Top.call, "op") = {}

\* the child entries of node n
ChildEntries(n) ==
    {EntryOf(Children(mDisplayListData[n])[i]) : i \in 1..Len(Children(mDisplayListData[n]))}

\* the step of iterate() that runs the Z sort
ZSortStep == Running("iterate", "cull") /\ ~QuickRejected(Top.node)

\* the Z list the step built holds an entry iff its node has nonzero Z, and those
\* entries are flagged
BucketedIffRaised ==
    \A e \in ChildEntries(Top.node) :
        /\ (\E k \in 1..Len(stack'[1].zTranslatedNodes) :
                Value(stack'[1].zTranslatedNodes[k]) = e)
              <=> properties[NodeOf(e)].mTranslationZ # 0
        /\ properties[NodeOf(e)].mTranslationZ # 0 => mSkipInOrderDraw'[e]

\* C17 as stated: after the Z sort an entry that is not bucketed has its flag false
\* unless the ordering pass flagged the entry as projected, and then the flag is
\* as the ordering pass set it.
C17_AsStated ==
    [][ZSortStep =>
          /\ BucketedIffRaised
          /\ \A e \in ChildEntries(Top.node) :
                properties[NodeOf(e)].mTranslationZ = 0 =>
                    IF e \in flaggedByPass THEN mSkipInOrderDraw'[e] = mSkipInOrderDraw[e]
                    ELSE ~mSkipInOrderDraw'[e]]_vars

\* C17: after the Z sort on a node an entry is in the Z list iff its node has nonzero
\* Z; the bucketed entries have the flag true; an entry that is not bucketed has the
\* flag false unless its node has the projects-backward flag set, and then the flag
\* is left as it was.
C17_ZSortFlags ==
    [][ZSortStep =>
          /\ BucketedIffRaised
          /\ \A e \in ChildEntries(Top.node) :
                properties[NodeOf(e)].mTranslationZ = 0 =>
                    IF properties[NodeOf(e)].mProjectBackwards
                    THEN mSkipInOrderDraw'[e] = mSkipInOrderDraw[e]
                    ELSE ~mSkipInOrderDraw'[e]]_vars

\* the Z sort has run on a node whose projecting child, which no ordering pass has
\* flagged, still carries the flag
C17_Witness ==
    /\ Running("iterate", "ops")
    /\ Top.i = 0
    /\ \E e \in ChildEntries(Top.node) :
          /\ properties[NodeOf(e)].mTranslationZ = 0
          /\ properties[NodeOf(e)].mProjectBackwards
          /\ e \notin flaggedByPass
          /\ mSkipInOrderDraw[e]

SubPasses == {"iterate3d", "iterateProjectedChildren"}
DrawSites == {"draw3d", "drawProjected"}

\* the entry the sub-pass frame f has handed to the handler and not taken back yet
EntryInHand(f) ==
    IF f.fn = "iterate3d" THEN Value(f.zTranslatedNodes[f.drawIndex + 1])
    ELSE mProjectedNodes[f.node][f.i + 1]

\* an entry a sub-pass has handed to the handler has its flag false until the
\* handler returns
FalseWhileHanded ==
    ~aborted =>
        \A k \in 1..Len(stack) :
            (stack[k].fn \in SubPasses /\ stack[k].pc = "afterdraw")
                => ~mSkipInOrderDraw[EntryInHand(stack[k])]

\* the step that hands an entry to the handler clears its flag and no other
HandStep ==
    (/\ stack # <<>>
     /\ Top.fn \in SubPasses
     /\ Len(trace') = Len(trace) + 1
     /\ trace'[Len(trace')].site \in DrawSites)
        => LET e == EntryOf(trace'[Len(trace')].op)
           IN  mSkipInOrderDraw' = [mSkipInOrderDraw EXCEPT ![e] = FALSE]

\* the step after the handler has returned sets the flag of that entry and no other
TakeBackStep ==
    (stack # <<>> /\ Top.fn \in SubPasses /\ Top.pc = "afterdraw")
        => mSkipInOrderDraw' = [mSkipInOrderDraw EXCEPT ![EntryInHand(Top)] = TRUE]

\* every other step of a sub-pass changes no flag, and no step of a sub-pass changes
\* a snapshot or an ancestor transform
OtherStep ==
    (stack # <<>> /\ Top.fn \in SubPasses)
        => /\ mTransformFromParent' = mTransformFromParent
           /\ mTransformFromCompositingAncestor' = mTransformFromCompositingAncestor
           /\ (Top.pc # "afterdraw" /\ ~(Len(trace') = Len(trace) + 1
                                         /\ trace'[Len(trace')].site \in DrawSites))
                 => mSkipInOrderDraw' = mSkipInOrderDraw

\* when a sub-pass returns, the entries it drew have their flags set
ReturnStep ==
    (/\ stack # <<>>
     /\ Top.fn \in SubPasses
     /\ Len(trace') = Len(trace) + 1
     /\ trace'[Len(trace')].site \in {"restore3d", "restoreProjected"})
        => \A i \in 1..Len(trace) :
              (/\ trace[i].call = Top.call
               /\ trace[i].mode = Top.mode
               /\ trace[i].site \in DrawSites)
                  => mSkipInOrderDraw'[EntryOf(trace[i].op)]

\* C18: in the 3d pass and in the projected pass the flag of an entry is false while
\* the entry is with the handler and true right after; when the pass returns every
\* entry it drew has the flag true, and the pass itself has changed no flag of
\* another entry, no transform snapshot and no ancestor transform.
C18_FlagToggled ==
    /\ []FalseWhileHanded
    /\ [][HandStep /\ TakeBackStep /\ OtherStep /\ ReturnStep]_vars

\* a 3d pass and a projected pass have drawn entries and returned
C18_Witness ==
    /\ Completed
    /\ \E i, j \in 1..Len(trace) :
          /\ trace[i].site = "draw3d" /\ mSkipInOrderDraw[EntryOf(trace[i].op)]
          /\ trace[j].site = "drawProjected" /\ mSkipInOrderDraw[EntryOf(trace[j].op)]
    /\ \E i \in 1..Len(trace) : trace[i].site = "restoreProjected"

ParentOf(n) == CHOOSE p \in Nodes : IsChildOf(n, p)
IsReceiver(n) == ReceiveIndexOf(n) >= 0

\* the descendants of the root that project backwards and have recorded operations
Projectors ==
    {g \in Reachable \ {Root} :
        /\ properties[g].mProjectBackwards
        /\ mDisplayListData[g] # NULL
        /\ ~isEmpty(mDisplayListData[g])}

\* the places of entry e in the projected lists
PlacesOf(e) ==
    {pl \in Nodes \X (1..Cardinality(Entries)) :
        /\ pl[2] <= Len(mProjectedNodes[pl[1]])
        /\ mProjectedNodes[pl[1]][pl[2]] = e}

RECURSIVE NearestReceiver(_)
\* the nearest receiver from node a upwards, the root when there is none
NearestReceiver(a) ==
    IF a = Root \/ IsReceiver(a) THEN a ELSE NearestReceiver(ParentOf(a))

\* the node the statement names for projector g
StatedTarget(g) ==
    IF ParentOf(g) = Root THEN Root ELSE NearestReceiver(ParentOf(ParentOf(g)))

RECURSIVE ReceiverAbove(_)
\* the nearest ancestor of x that is a receiver and whose child on the way down to x
\* does not project backwards, the root when there is none
ReceiverAbove(x) ==
    LET a == ParentOf(x)
    IN  IF a = Root \/ (IsReceiver(a) /\ ~properties[x].mProjectBackwards) THEN a
        ELSE ReceiverAbove(a)

\* C19 as stated: the entry of every projector is in exactly one projected list,
\* that of its nearest receiving ancestor other than its parent, else the root's.
C19_AsStated ==
    (orderRuns >= 1 /\ ~aborted) =>
        \A g \in Projectors :
            /\ Cardinality(PlacesOf(g)) = 1
            /\ InSeq(g, mProjectedNodes[StatedTarget(g)])
            /\ ParentOf(g) # Root => ~InSeq(g, mProjectedNodes[ParentOf(g)])

\* C19: after the ordering pass the entry of every descendant that projects backwards
\* and has recorded operations is in exactly one projected list: that of its nearest
\* ancestor that is a receiver, is not its parent, and whose child on the path to
\* the descendant does not itself project backwards, else the root's; it is not in
\* its parent's list unless the parent is the root.
C19_ProjectedOnce ==
    (orderRuns >= 1 /\ ~aborted) =>
        \A g \in Projectors :
            /\ Cardinality(PlacesOf(g)) = 1
            /\ InSeq(g, mProjectedNodes[ReceiverAbove(g)])
            /\ ParentOf(g) # Root => ~InSeq(g, mProjectedNodes[ParentOf(g)])

\* below a receiver a projecting node has a projecting child: the child is collected
\* above the receiver
C19_Witness ==
    /\ orderRuns >= 1
    /\ ~aborted
    /\ \E g \in Projectors :
          /\ ParentOf(g) # Root
          /\ properties[ParentOf(g)].mProjectBackwards
          /\ ParentOf(ParentOf(g)) # Root
          /\ IsReceiver(ParentOf(ParentOf(g)))
          /\ InSeq(g, mProjectedNodes[Root])

\* the alpha calls of the given kind the property setup of call c made
AlphaCallsOf(c, fn) ==
    {i \in 1..Len(renderer.alphaSetup) :
        /\ renderer.alphaSetup[i].call = c
        /\ renderer.alphaSetup[i].fn = fn
        /\ renderer.alphaSetup[i].alpha = properties[calls[c]].mAlpha}

\* the property operations of the given kind call c handed on
PropertyOpsOf(c, kind) == {i \in EventsOf(c, "property") : trace[i].op[1] = kind}

\* the number of things of a kind that are there iff the condition holds
OneIff(S, cond) == Cardinality(S) = IF cond THEN 1 ELSE 0

PropertySetupOf(c) ==
    LET p == properties[calls[c]]
        override == AlphaCallsOf(c, "setOverrideLayerAlpha")
        scale == AlphaCallsOf(c, "scaleAlpha")
        layer == PropertyOpsOf(c, "SaveLayer")
        clipRect == PropertyOpsOf(c, "ClipRect")
        clipPath == PropertyOpsOf(c, "ClipPath")
    IN  /\ Cardinality({i \in 1..Len(renderer.alphaSetup) : renderer.alphaSetup[i].call = c})
              + Cardinality(layer) <= 1
        /\ OneIff(override, p.mAlpha < 100 /\ p.mCaching)
        /\ OneIff(scale, p.mAlpha < 100 /\ ~p.mCaching /\ ~p.mHasOverlappingRendering)
        /\ OneIff(layer, p.mAlpha < 100 /\ ~p.mCaching /\ p.mHasOverlappingRendering)
        /\ OneIff(clipRect, p.mClipToBounds /\ ~p.mCaching /\ layer = {})
        /\ OneIff(clipPath, p.mClipToOutline /\ ~p.mOutlineEmpty)
        /\ EventsOf(c, "property") = layer \cup clipRect \cup clipPath
        /\ \A i \in layer : \A j \in clipRect \cup clipPath : i < j
        /\ \A i \in clipRect : \A j \in clipPath : i < j

\* C20: the property setup of a node applies at most one alpha mechanism and only
\* when alpha < 1: the override layer alpha if the node is caching, else scaleAlpha
\* if it has no overlapping rendering, else a SaveLayer operation; it hands on a
\* clip-to-bounds operation iff the node clips to its bounds, is not caching and no
\* SaveLayer was handed on, a clip-to-outline operation iff the node clips to a
\* non-empty outline, in the order SaveLayer, clip-to-bounds, clip-to-outline.
C20_PropertySetup ==
    Settled => \A c \in 1..Len(calls) : Dispatched(c) => PropertySetupOf(c)

\* a node with alpha below 1 and no overlapping rendering had its alpha scaled and
\* both clips handed on
C20_Witness ==
    /\ Completed
    /\ \E c \in 1..Len(calls) :
          /\ AlphaCallsOf(c, "scaleAlpha") # {}
          /\ PropertyOpsOf(c, "ClipRect") # {}
          /\ PropertyOpsOf(c, "ClipPath") # {}

\* the entries the ordering pass from the root classifies as projected
ClassifiedProjected ==
    {e \in Entries : \E n \in Nodes : InSeq(e, computeOrdering(Root).appended[n])}

\* no step changes a transform snapshot
SnapshotKept == mTransformFromParent' = mTransformFromParent

\* a step changes the ancestor transform of an entry only if it is an ordering pass
\* that classifies the entry as projected
AncestorTransformKept ==
    \A e \in Entries :
        mTransformFromCompositingAncestor'[e] # mTransformFromCompositingAncestor[e]
            => PassCompletes /\ e \in ClassifiedProjected

\* the ordering pass leaves the ancestor transform of every other entry as it was
PassKeepsOthers ==
    PassCompletes =>
        \A e \in Entries \ ClassifiedProjected :
            mTransformFromCompositingAncestor'[e] = mTransformFromCompositingAncestor[e]

\* C21: no ordering pass, Z sort, 3d pass, projected pass or dispatch changes the
\* transform snapshot of a child entry; the transform from the compositing ancestor
\* is written by the ordering pass only, for the entries it classifies as projected
\* only, and is left unchanged for every other entry.
C21_SnapshotsKept == [][SnapshotKept /\ AncestorTransformKept /\ PassKeepsOthers]_vars

\* after a pass and a dispatch with a 3d pass and a projected pass, a projected entry
\* has its ancestor transform and an entry that is not projected has none
C21_Witness ==
    /\ Completed
    /\ \E i, j \in 1..Len(trace) :
          trace[i].site = "draw3d" /\ trace[j].site = "drawProjected"
    /\ \E e \in ClassifiedProjected : mTransformFromCompositingAncestor[e] # Identity
    /\ \E e \in Entries \ ClassifiedProjected :
          /\ mTransformFromCompositingAncestor[e] = Identity
          /\ mTransformFromParent[e] # Identity

\* the iterate() calls entered on the node of entry e: DrawDisplayListOp enters one
\* each time it is handed to the handler with mSkipInOrderDraw = false
DrawsOf(e) == {c \in 2..Len(calls) : calls[c] = e}

\* the draws of entry e by a projected pass, and by a 3d pass or the op loop
ProjectedDrawsOf(e) ==
    {i \in 1..Len(trace) : trace[i].site = "drawProjected" /\ trace[i].op = ChildOp(e)}
ZDrawsOf(e) ==
    {i \in 1..Len(trace) : trace[i].site = "draw3d" /\ trace[i].op = ChildOp(e)}

\* C22: in one frame every child entry is handed to the handler with
\* mSkipInOrderDraw = false at most once, whatever the Z translations, the
\* projects-backward flags and the receivers; no child is drawn by a pass of its
\* parent and by the projected pass of an ancestor as well.
C22_DrawnOnce ==
    \A e \in Entries :
        /\ Cardinality(DrawsOf(e)) <= 1
        /\ ProjectedDrawsOf(e) # {} => ZDrawsOf(e) = {}

\* no node of the tree is skipped by iterate(): none is transparent, without
\* recorded operations or quick-rejected
NoneSkipped ==
    \A n \in Reachable :
        /\ mDisplayListData[n] # NULL
        /\ ~SkipsDispatch(n)
        /\ ~QuickRejected(n)

\* C23: in a frame in which no node is skipped for alpha <= 0, an empty op list or
\* quick reject, every child entry the ordering pass placed in a projected list,
\* that of the root included, is handed to the handler with mSkipInOrderDraw = false
\* at least once during the dispatch of the root.
C23_ProjectedDrawn ==
    (Completed /\ NoneSkipped) =>
        \A n \in Reachable :
            \A k \in 1..Len(mProjectedNodes[n]) : DrawsOf(mProjectedNodes[n][k]) # {}

====
